---------------------------- MODULE Spec2Model ----------------------------
(***************************************************************************)
(* The authoritative server of the sheep arena game (server.js, with the   *)
(* constants of src/config.js): the 60 Hz game loop (physics, death and    *)
(* respawn, AI sheep, state broadcast) and the WebSocket connection        *)
(* handlers.                                                               *)
(*                                                                         *)
(* Numbers.  Lengths, speeds and angles are JavaScript doubles in the      *)
(* program; here they are fixed-point integers in thousandths (Unit), so   *)
(* 1.5 is 1500 and an angle is in milliradians.  The respawn countdown is  *)
(* the one place where the rounding of doubles decides what the program    *)
(* does (1/60 is not a binary fraction), so respawnTimer is an exact IEEE  *)
(* double, held as a sign and two limbs (see "Doubles" below).             *)
(***************************************************************************)
EXTENDS Integers, Sequences, FiniteSets, TLC

\* ------------------------------------------------------------ constants --
\* src/config.js, in thousandths
Unit == 1000
TICK_RATE == 60
ACCELERATION == 50
MAX_SPEED == 1500
TURN_ACCELERATION == 15
ANGULAR_FRICTION == 750
FRICTION == 950
SIDEWAYS_FRICTION_MULTIPLIER == 3000
TILT_RECOVERY_DAMPING == 950
TILT_RECOVERY_FORCE == 10
GRAVITY == 1000
FENCE_RADIUS == 100000
TILT_DEATH_DEGREES == 60
SPAWN_RADIUS == 50000
\* server.js
GROUND_Y == 600
RESPAWN_TIME == 3
Pi == 3142
TwoPi == 6283

\* ------------------------------------------------------------ bounds -----
\* AI.COUNT is 50 in src/config.js; the model runs this many AI sheep.
AI_SHEEP_COUNT == 2
\* connections accepted in one behaviour
MaxConns == 2
\* ticks of one behaviour
MaxTicks == 2
\* socket events (connection, message, closing, close, error) of one behaviour
MaxEvents == 2

\* ------------------------------------------------------------ arithmetic -
Abs(n) == IF n < 0 THEN -n ELSE n
Sgn(n) == IF n < 0 THEN -1 ELSE 1
Max(a, b) == IF a > b THEN a ELSE b

\* n / d rounded to the nearest integer, halves away from zero (d > 0)
Rnd(n, d) == Sgn(n) * ((2 * Abs(n) + d) \div (2 * d))

\* the product of two fixed-point numbers
Mul(a, b) == Rnd(a * b, Unit)

\* floor of the square root
RECURSIVE IsqrtIter(_, _)
IsqrtIter(n, x) ==
    LET y == (x + n \div x) \div 2
    IN  IF y >= x THEN x ELSE IsqrtIter(n, y)

Isqrt(n) == IF n < 2 THEN n ELSE IsqrtIter(n, n)

\* Math.sqrt(a ** 2 + b ** 2).  Squares of arena coordinates do not fit the
\* checker's integers, so large arguments are taken in hundredths.
Hypot(a, b) ==
    IF Max(Abs(a), Abs(b)) < 30000
    THEN Isqrt(a * a + b * b)
    ELSE 10 * Isqrt((Abs(a) \div 10) * (Abs(a) \div 10) + (Abs(b) \div 10) * (Abs(b) \div 10))

\* an angle reduced to [0, 2 pi)
Mod2Pi(a) == a % TwoPi

\* Math.sin on [0, pi]: Bhaskara's rational approximation (within 0.002)
SinHalf(x) ==
    LET p == x * (Pi - x)
    IN  Rnd(16 * p, (5 * Pi * Pi - 4 * p) \div Unit)

\* Math.sin, Math.cos
Sin(a) ==
    LET x == Mod2Pi(a)
    IN  IF x <= Pi THEN SinHalf(x) ELSE -SinHalf(Max(0, TwoPi - x))

Cos(a) == Sin(a + Pi \div 2)

\* Math.atan on [0, 1] (t in thousandths): t (pi/4 + 0.273 (1 - t)), within 0.004
AtanUnit(t) == Rnd(t * (Pi \div 4 + Rnd(273 * (Unit - t), Unit)), Unit)

\* Math.atan2(y, x): the angle of the vector (x, y), in (-pi, pi]
Atan2(y, x) ==
    LET ay == Abs(y)
        ax == Abs(x)
        first == IF ax = 0 /\ ay = 0 THEN 0
                 ELSE IF ay <= ax THEN AtanUnit(Rnd(ay * Unit, ax))
                 ELSE Pi \div 2 - AtanUnit(Rnd(ax * Unit, ay))
        upper == IF x >= 0 THEN first ELSE Pi - first
    IN  IF y >= 0 THEN upper ELSE -upper

\* Math.atan2(Math.sin(d), Math.cos(d)): d brought into (-pi, pi]
NormalizeAngle(d) ==
    LET x == Mod2Pi(d)
    IN  IF x > Pi THEN x - TwoPi ELSE x

\* ------------------------------------------------------------ doubles ----
\* An IEEE-754 double of magnitude below 4, exactly: sign, and the magnitude
\* hi * 2^29 + lo in units of 2^-58 (the last place of 1/60).  Every result
\* is rounded to 53 significant bits, to nearest, ties to even.
Limb == 2 ^ 29

DblOf(n) == [neg |-> FALSE, hi |-> n * Limb, lo |-> 0]

\* the weight of the last kept bit of a magnitude, in units
RECURSIVE Quantum(_)
Quantum(hi) == IF hi < 2 ^ 24 THEN 1 ELSE 2 * Quantum(hi \div 2)

RoundMag(hi, lo) ==
    LET q == Quantum(hi)
        r == lo % q
        down == lo - r
        up == (2 * r > q) \/ (2 * r = q /\ (down \div q) % 2 = 1)
        lo2 == IF up THEN down + q ELSE down
    IN  IF lo2 = Limb THEN [hi |-> hi + 1, lo |-> 0] ELSE [hi |-> hi, lo |-> lo2]

MagLess(a, b) == a.hi < b.hi \/ (a.hi = b.hi /\ a.lo < b.lo)

\* |a| - |b| for |a| >= |b|, and |a| + |b|, rounded
MagSub(a, b) ==
    LET borrow == IF a.lo < b.lo THEN 1 ELSE 0
    IN  RoundMag(a.hi - b.hi - borrow, a.lo - b.lo + borrow * Limb)

MagAdd(a, b) ==
    LET carry == IF a.lo + b.lo >= Limb THEN 1 ELSE 0
    IN  RoundMag(a.hi + b.hi + carry, a.lo + b.lo - carry * Limb)

Signed(neg, m) == [neg |-> neg /\ (m.hi # 0 \/ m.lo # 0), hi |-> m.hi, lo |-> m.lo]

\* a - b in double arithmetic
DblSub(a, b) ==
    IF a.neg # b.neg THEN Signed(a.neg, MagAdd(a, b))
    ELSE IF MagLess(a, b) THEN Signed(~a.neg, MagSub(b, a))
    ELSE Signed(a.neg, MagSub(a, b))

DblLeqZero(t) == t.neg \/ (t.hi = 0 /\ t.lo = 0)

\* 1 / TICK_RATE in double arithmetic: 2^58 / TICK_RATE by long division,
\* rounded to the unit (the quotient lies in [2^-6, 2^-5), whose last place
\* is the unit)
TICK_PERIOD ==
    LET m1 == (Limb % TICK_RATE) * 2 ^ 15
        m2 == (m1 % TICK_RATE) * 2 ^ 14
        r == m2 % TICK_RATE
        q == (m1 \div TICK_RATE) * 2 ^ 14 + m2 \div TICK_RATE
        up == (2 * r > TICK_RATE) \/ (2 * r = TICK_RATE /\ q % 2 = 1)
    IN  [neg |-> FALSE, hi |-> Limb \div TICK_RATE, lo |-> IF up THEN q + 1 ELSE q]

\* ------------------------------------------------------------ randomness -
\* Math.random(): the draws of one handler run are read off one cyclic
\* stream of values in [0, 1); n counts the draws made so far.
Rolls == { <<0>>, <<999>>, <<250, 900, 500>> }

Draw(rolls, n) == rolls[(n % Len(rolls)) + 1]

\* ------------------------------------------------------------ entities ---
\* null: an optional value is a sequence of at most one element
Null == <<>>
Undefined == "undefined"

DEBUG_RESPAWN_AT_SPAWN == TRUE

TILT_DEATH_RAD == Rnd(TILT_DEATH_DEGREES * Pi, 180)

AI_PERSONALITIES == <<"timid", "brave", "curious", "hyper", "aggressive">>

aiSheepId(i) == <<"ai-sheep", i>>
uuidv4(k) == <<"uuid", k>>

\* the ids pushed to aiSheepIds by a set-up loop that creates count sheep
SheepIds(count) == [k \in 1..count |-> aiSheepId(k - 1)]

\* the aiSheepIds array, filled at start-up
VARIABLE aiSheepIds

NoInput == [w |-> FALSE, a |-> FALSE, s |-> FALSE, d |-> FALSE]

\* a spawn drawn from the whole arena (the fault C10 excludes)
getRandomSpawnArena(u1, u2) ==
    [x |-> Mul(Cos(Mul(u1, TwoPi)), Mul(u2, FENCE_RADIUS)),
     y |-> GROUND_Y,
     z |-> Mul(Sin(Mul(u1, TwoPi)), Mul(u2, FENCE_RADIUS))]

\* getRandomSpawn(), with its two draws
getRandomSpawn(u1, u2) ==
    LET angle == Mul(u1, TwoPi)
        radius == Mul(u2, SPAWN_RADIUS)
    IN  [x |-> Mul(Cos(angle), radius), y |-> GROUND_Y, z |-> Mul(Sin(angle), radius)]

\* an AI sheep that begins its life startled (the fault C36 excludes)
createAISheepStartled(id, personality, u1, u2, u3, u4) ==
    LET angle == Mul(u1, TwoPi)
        radius == Mul(u2, Mul(SPAWN_RADIUS, 700))
    IN  [id |-> id,
         position |-> [x |-> Mul(Cos(angle), radius), y |-> GROUND_Y,
                       z |-> Mul(Sin(angle), radius)],
         spawn |-> Null,
         rotation |-> Mul(u3, TwoPi),
         angularVelocity |-> 0,
         velocityX |-> 0, velocityY |-> 0, velocityZ |-> 0,
         isDead |-> FALSE,
         respawnTimer |-> DblOf(0),
         rotationX |-> 0, rotationZ |-> 0,
         angularVelocityX |-> 0, angularVelocityZ |-> 0,
         isAI |-> TRUE,
         aiTimer |-> 0,
         aiTargetAngle |-> Mul(u4, TwoPi),
         aiAvoidTimer |-> 0,
         personality |-> personality,
         scaredTimer |-> Unit]

\* createAISheep(id, personality), with its four draws
createAISheep(id, personality, u1, u2, u3, u4) ==
    LET angle == Mul(u1, TwoPi)
        radius == Mul(u2, Mul(SPAWN_RADIUS, 700))
    IN  [id |-> id,
         position |-> [x |-> Mul(Cos(angle), radius), y |-> GROUND_Y,
                       z |-> Mul(Sin(angle), radius)],
         spawn |-> Null,
         rotation |-> Mul(u3, TwoPi),
         angularVelocity |-> 0,
         velocityX |-> 0, velocityY |-> 0, velocityZ |-> 0,
         isDead |-> FALSE,
         respawnTimer |-> DblOf(0),
         rotationX |-> 0, rotationZ |-> 0,
         angularVelocityX |-> 0, angularVelocityZ |-> 0,
         isAI |-> TRUE,
         aiTimer |-> 0,
         aiTargetAngle |-> Mul(u4, TwoPi),
         aiAvoidTimer |-> 0,
         personality |-> personality,
         scaredTimer |-> 0]

\* the player object of wss.on('connection'); the AI fields it lacks read as
\* undefined (personality) or compare as 0 (timers)
createPlayer(id, spawnPos, u3) ==
    [id |-> id,
     position |-> spawnPos,
     spawn |-> <<spawnPos>>,
     rotation |-> Mul(u3, TwoPi),
     angularVelocity |-> 0,
     velocityX |-> 0, velocityY |-> 0, velocityZ |-> 0,
     isDead |-> FALSE,
     respawnTimer |-> DblOf(0),
     rotationX |-> 0, rotationZ |-> 0,
     angularVelocityX |-> 0, angularVelocityZ |-> 0,
     isAI |-> FALSE,
     aiTimer |-> 0,
     aiTargetAngle |-> 0,
     aiAvoidTimer |-> 0,
     personality |-> Undefined,
     scaredTimer |-> 0]

\* ------------------------------------------------------------ game loop ---
\* the dead branch of the first loop: count down, respawn at <= 0
\* (n: draws made before; the result carries the draws made after)
DeadStep(player, rolls, n) ==
    LET timer == DblSub(player.respawnTimer, TICK_PERIOD)
        atSpawn == DEBUG_RESPAWN_AT_SPAWN /\ player.spawn # Null
        position == IF atSpawn THEN [player.spawn[1] EXCEPT !.y = GROUND_Y]
                    ELSE getRandomSpawn(Draw(rolls, n), Draw(rolls, n + 1))
        n2 == IF atSpawn THEN n ELSE n + 2
    IN  IF DblLeqZero(timer)
        THEN [player |-> [player EXCEPT !.respawnTimer = timer,
                                        !.position = position,
                                        !.rotation = Mul(Draw(rolls, n2), TwoPi),
                                        !.angularVelocity = 0,
                                        !.velocityX = 0, !.velocityY = 0, !.velocityZ = 0,
                                        !.rotationX = 0, !.rotationZ = 0,
                                        !.angularVelocityX = 0, !.angularVelocityZ = 0,
                                        !.isDead = FALSE],
              n |-> n2 + 1]
        ELSE [player |-> [player EXCEPT !.respawnTimer = timer], n |-> n]

\* The physics of one alive entity.  The program updates the fields of the
\* player object in place, stage after stage; each stage here takes the
\* object as the stage before left it.

\* a turn that never reverses its direction (the fault C31 excludes)
TurnOneWay(player, input) ==
    LET angularVelocity == Mul(player.angularVelocity
                                 + (IF input.a THEN TURN_ACCELERATION ELSE 0)
                                 - (IF input.d THEN TURN_ACCELERATION ELSE 0),
                               ANGULAR_FRICTION)
    IN  [player EXCEPT !.angularVelocity = angularVelocity,
                       !.rotation = player.rotation + angularVelocity]

\* turning acceleration, angular friction, yaw
Turn(player, input) ==
    LET turnDir == IF input.s /\ ~input.w THEN -1 ELSE 1
        angularVelocity == Mul(player.angularVelocity
                                 + (IF input.a THEN TURN_ACCELERATION * turnDir ELSE 0)
                                 - (IF input.d THEN TURN_ACCELERATION * turnDir ELSE 0),
                               ANGULAR_FRICTION)
    IN  [player EXCEPT !.angularVelocity = angularVelocity,
                       !.rotation = player.rotation + angularVelocity]

\* forward and backward acceleration along the yaw
Thrust(player, input) ==
    LET forwardX == Sin(player.rotation)
        forwardZ == Cos(player.rotation)
        accX == (IF input.w THEN Mul(forwardX, ACCELERATION) ELSE 0)
                  - (IF input.s THEN Mul(Mul(forwardX, ACCELERATION), 500) ELSE 0)
        accZ == (IF input.w THEN Mul(forwardZ, ACCELERATION) ELSE 0)
                  - (IF input.s THEN Mul(Mul(forwardZ, ACCELERATION), 500) ELSE 0)
    IN  [player EXCEPT !.velocityX = player.velocityX + accX,
                       !.velocityZ = player.velocityZ + accZ]

\* the velocity rebuilt from its forward and sideways parts after friction
Rebuild(player, forwardX, forwardZ, rightX, rightZ, newForwardSpeed, newSidewaysSpeed) ==
    [player EXCEPT !.velocityX = Mul(forwardX, newForwardSpeed) + Mul(rightX, newSidewaysSpeed),
                   !.velocityZ = Mul(forwardZ, newForwardSpeed) + Mul(rightZ, newSidewaysSpeed)]

\* car-like friction: more of it sideways.  The double FRICTION is just
\* below 0.95, so a product forwardSpeed * FRICTION that would lie half-way
\* between two thousandths lies below the half: it is rounded toward zero.
Slow(player, forwardX, forwardZ, rightX, rightZ) ==
    LET forwardSpeed == Mul(player.velocityX, forwardX) + Mul(player.velocityZ, forwardZ)
        sidewaysSpeed == Mul(player.velocityX, rightX) + Mul(player.velocityZ, rightZ)
    IN  Rebuild(player, forwardX, forwardZ, rightX, rightZ,
                Rnd(2 * forwardSpeed * FRICTION - Sgn(forwardSpeed), 2 * Unit),
                Mul(sidewaysSpeed, Unit - Mul(Unit - FRICTION, SIDEWAYS_FRICTION_MULTIPLIER)))

Friction(player) ==
    Slow(player, Sin(player.rotation), Cos(player.rotation),
         Cos(player.rotation), -Sin(player.rotation))

\* a speed limit that only snaps a crawl to rest (the fault C11 excludes)
LimitCrawlOnly(player, speed) ==
    IF speed < 10 THEN [player EXCEPT !.velocityX = 0, !.velocityZ = 0] ELSE player

\* a speed limit that lets a crawl go on (the fault C32 excludes)
LimitNoSnap(player, speed) ==
    IF speed > MAX_SPEED
    THEN [player EXCEPT !.velocityX = Rnd(player.velocityX * MAX_SPEED, speed),
                        !.velocityZ = Rnd(player.velocityZ * MAX_SPEED, speed)]
    ELSE player

\* the speed clamped to MAX_SPEED, a crawl snapped to rest
Limit(player, speed) ==
    IF speed < 10 THEN [player EXCEPT !.velocityX = 0, !.velocityZ = 0]
    ELSE IF speed > MAX_SPEED
    THEN [player EXCEPT !.velocityX = Rnd(player.velocityX * MAX_SPEED, speed),
                        !.velocityZ = Rnd(player.velocityZ * MAX_SPEED, speed)]
    ELSE player

Clamp(player) == Limit(player, Hypot(player.velocityX, player.velocityZ))

\* a gravity that pulls upward (the fault C37 excludes)
MoveUpward(player) ==
    LET velocityY == player.velocityY + Rnd(GRAVITY, TICK_RATE)
    IN  [player EXCEPT !.velocityY = velocityY,
                       !.position = [x |-> player.position.x + player.velocityX,
                                     y |-> player.position.y + velocityY,
                                     z |-> player.position.z + player.velocityZ]]

\* gravity, then the position moved by the velocity
Move(player) ==
    LET velocityY == player.velocityY - Rnd(GRAVITY, TICK_RATE)
    IN  [player EXCEPT !.velocityY = velocityY,
                       !.position = [x |-> player.position.x + player.velocityX,
                                     y |-> player.position.y + velocityY,
                                     z |-> player.position.z + player.velocityZ]]

\* a scared timid sheep in the air: no horizontal movement, a backflip
ScaredJump(player) ==
    IF player.personality = "timid" /\ player.scaredTimer > 0 /\ player.position.y > GROUND_Y
    THEN [player EXCEPT !.velocityX = 0, !.velocityZ = 0, !.angularVelocityX = -700]
    ELSE player

\* no ground under the sheep (the fault C24 excludes)
GroundOpen(player) == player

\* the ground constraint
Ground(player) ==
    IF player.position.y < GROUND_Y
    THEN [player EXCEPT !.position.y = GROUND_Y,
                        !.velocityY = 0,
                        !.angularVelocityX = Mul(player.angularVelocityX, 900),
                        !.angularVelocityZ = Mul(player.angularVelocityZ, 900)]
    ELSE player

\* tilt rotation, then the restoring force and the damping of the tilt rates
TiltRates(player) ==
    LET rotationX == player.rotationX + player.angularVelocityX
        rotationZ == player.rotationZ + player.angularVelocityZ
    IN  [player EXCEPT
           !.rotationX = rotationX,
           !.rotationZ = rotationZ,
           !.angularVelocityX = Mul(player.angularVelocityX - Mul(rotationX, TILT_RECOVERY_FORCE),
                                    TILT_RECOVERY_DAMPING),
           !.angularVelocityZ = Mul(player.angularVelocityZ - Mul(rotationZ, TILT_RECOVERY_FORCE),
                                    TILT_RECOVERY_DAMPING)]

\* small tilt rates snapped to zero
SnapRates(player) ==
    [player EXCEPT
       !.angularVelocityX = IF Abs(player.angularVelocityX) < 1 THEN 0
                            ELSE player.angularVelocityX,
       !.angularVelocityZ = IF Abs(player.angularVelocityZ) < 1 THEN 0
                            ELSE player.angularVelocityZ]

\* the lean into a turn
Lean(player) ==
    LET targetTurningTiltZ == -player.angularVelocity * 5
    IN  [player EXCEPT !.rotationZ = Mul(player.rotationZ, 950) + Mul(targetTurningTiltZ, 50)]

\* small tilts snapped to zero
SnapTilt(player) ==
    [player EXCEPT
       !.rotationZ = IF /\ Abs(player.rotationZ) < 10
                        /\ Abs(player.angularVelocity) < 10
                        /\ Abs(player.angularVelocityZ) < 10
                     THEN 0 ELSE player.rotationZ,
       !.rotationX = IF Abs(player.rotationX) < 10 /\ Abs(player.angularVelocityX) < 10
                     THEN 0 ELSE player.rotationX]

\* everything of the physics before the death checks
Integrate(player, input) ==
    SnapTilt(Lean(SnapRates(TiltRates(Ground(ScaredJump(Move(Clamp(Friction(
        Thrust(Turn(player, input), input))))))))))

\* broadcast that does not look at readyState (the fault C8 excludes)
broadcastAll(message, clients) == [message |-> message, to |-> DOMAIN clients]

\* a broadcast that gives up at the first socket that is not OPEN (the
\* fault C22 excludes); the sockets in the order of their connections
broadcastBlocked(message, clients) ==
    [message |-> message,
     to |-> {c \in DOMAIN clients :
               \A d \in DOMAIN clients : d[2] <= c[2] => clients[d] = "OPEN"}]

\* broadcast(message): to every client whose socket is OPEN
broadcast(message, clients) ==
    [message |-> message, to |-> {c \in DOMAIN clients : clients[c] = "OPEN"}]

\* a death with no time to wait (the fault C33 excludes)
DieAtOnce(player) == [player EXCEPT !.isDead = TRUE, !.respawnTimer = DblOf(0)]

\* a death that leaves respawnTimer as it was (the fault C23 excludes)
DieUntimed(player) == [player EXCEPT !.isDead = TRUE]

Die(player) == [player EXCEPT !.isDead = TRUE, !.respawnTimer = DblOf(RESPAWN_TIME)]

DeathMessage(player) == [type |-> "death", id |-> player.id, position |-> player.position]

\* a fence check that measures along x only (the fault C6 excludes)
FenceCheckXOnly(r, clients) ==
    IF Abs(r.player.position.x) >= FENCE_RADIUS /\ ~r.player.isDead
    THEN [player |-> Die(r.player),
          sent |-> Append(r.sent, broadcast(DeathMessage(r.player), clients))]
    ELSE r

\* a fence check one unit further out (the fault C7 excludes)
FenceCheckWide(r, clients) ==
    IF Hypot(r.player.position.x, r.player.position.z) >= FENCE_RADIUS + Unit
         /\ ~r.player.isDead
    THEN [player |-> Die(r.player),
          sent |-> Append(r.sent, broadcast(DeathMessage(r.player), clients))]
    ELSE r

\* the fence check; r is the entity with the messages sent for it so far
FenceCheck(r, clients) ==
    LET player == r.player
        distanceFromCenter == Hypot(player.position.x, player.position.z)
    IN  IF distanceFromCenter >= FENCE_RADIUS /\ ~player.isDead
        THEN [player |-> Die(player),
              sent |-> Append(r.sent, broadcast(DeathMessage(player), clients))]
        ELSE r

\* a tilt check without the isDead guard (the fault C1 excludes)
TiltCheckAgain(r, clients) ==
    IF /\ r.player.position.y <= GROUND_Y + 1
       /\ ~(r.player.personality = "timid" /\ r.player.scaredTimer > 0)
       /\ (Abs(r.player.rotationZ) > TILT_DEATH_RAD \/ Abs(r.player.rotationX) > TILT_DEATH_RAD)
    THEN [player |-> Die(r.player),
          sent |-> Append(r.sent, broadcast(DeathMessage(r.player), clients))]
    ELSE r

\* a tilt check that does not spare the scared (the fault C13 excludes)
TiltCheckScared(r, clients) ==
    IF /\ r.player.position.y <= GROUND_Y + 1
       /\ (Abs(r.player.rotationZ) > TILT_DEATH_RAD \/ Abs(r.player.rotationX) > TILT_DEATH_RAD)
       /\ ~r.player.isDead
    THEN [player |-> Die(r.player),
          sent |-> Append(r.sent, broadcast(DeathMessage(r.player), clients))]
    ELSE r

\* the tilt check: on the ground only, never for a recently scared timid sheep
TiltCheck(r, clients) ==
    LET player == r.player
        isRecentlyScaredTimid == player.personality = "timid" /\ player.scaredTimer > 0
    IN  IF /\ player.position.y <= GROUND_Y + 1
           /\ ~isRecentlyScaredTimid
           /\ (Abs(player.rotationZ) > TILT_DEATH_RAD \/ Abs(player.rotationX) > TILT_DEATH_RAD)
           /\ ~player.isDead
        THEN [player |-> Die(player),
              sent |-> Append(r.sent, broadcast(DeathMessage(player), clients))]
        ELSE r

\* one alive entity in the first loop: physics, then the two death checks
AliveStep(player, input, clients) ==
    TiltCheck(FenceCheck([player |-> Integrate(player, input), sent |-> <<>>], clients),
              clients)

\* the first loop of the tick, from entity i on.  w: the players so far, the
\* draws made, the messages sent and the stages run.
Counted(w, i, dead) ==
    [players |-> [w.players EXCEPT ![i] = dead.player],
     n |-> dead.n,
     sent |-> w.sent,
     stages |-> Append(w.stages, <<"dead", w.players[i].id>>)]

Simulated(w, i, alive) ==
    [players |-> [w.players EXCEPT ![i] = alive.player],
     n |-> w.n,
     sent |-> w.sent \o alive.sent,
     stages |-> w.stages \o << <<"physics", w.players[i].id>>,
                               <<"lifecycle", w.players[i].id>> >>]

\* a tick that reads no input record (the fault C19 excludes)
InputOfNobody(inputStates, id) == NoInput

\* inputStates[id] || { w: false, a: false, s: false, d: false }
InputOf(inputStates, id) == IF id \in DOMAIN inputStates THEN inputStates[id] ELSE NoInput

RECURSIVE PhysicsLoop(_, _, _, _, _)
PhysicsLoop(w, inputStates, clients, rolls, i) ==
    IF i > Len(w.players) THEN w
    ELSE IF w.players[i].isDead
    THEN PhysicsLoop(Counted(w, i, DeadStep(w.players[i], rolls, w.n)),
                     inputStates, clients, rolls, i + 1)
    ELSE PhysicsLoop(Simulated(w, i, AliveStep(w.players[i],
                                               InputOf(inputStates, w.players[i].id),
                                               clients)),
                     inputStates, clients, rolls, i + 1)

\* the position of an id in the store, 0 when absent (players[id])
RECURSIVE IndexOf(_, _, _)
IndexOf(players, id, i) ==
    IF i > Len(players) THEN 0
    ELSE IF players[i].id = id THEN i
    ELSE IndexOf(players, id, i + 1)

\* a scan that does not skip the dead (the fault C29 excludes)
RECURSIVE NearestOfAll(_, _, _, _)
NearestOfAll(players, sheep, j, best) ==
    IF j > Len(players) THEN best
    ELSE LET other == players[j]
             dx == other.position.x - sheep.position.x
             dz == other.position.z - sheep.position.z
             d == Hypot(dx, dz)
         IN  IF other.id = sheep.id
             THEN NearestOfAll(players, sheep, j + 1, best)
             ELSE IF ~best.found \/ d < best.closestDist
             THEN NearestOfAll(players, sheep, j + 1,
                               [found |-> TRUE, closestDist |-> d, targetAngle |-> Atan2(dx, dz)])
             ELSE NearestOfAll(players, sheep, j + 1, best)

\* the nearest-neighbour scan of the curious and aggressive branches, from
\* entity j on; best: the closest distance and its bearing so far
RECURSIVE Nearest(_, _, _, _)
Nearest(players, sheep, j, best) ==
    IF j > Len(players) THEN best
    ELSE LET other == players[j]
             dx == other.position.x - sheep.position.x
             dz == other.position.z - sheep.position.z
             d == Hypot(dx, dz)
         IN  IF other.id = sheep.id \/ other.isDead
             THEN Nearest(players, sheep, j + 1, best)
             ELSE IF ~best.found \/ d < best.closestDist
             THEN Nearest(players, sheep, j + 1,
                          [found |-> TRUE, closestDist |-> d, targetAngle |-> Atan2(dx, dz)])
             ELSE Nearest(players, sheep, j + 1, best)

NoTarget == [found |-> FALSE, closestDist |-> 0, targetAngle |-> 0]

\* 1 / TICK_RATE seconds, in thousandths (the AI timers)
TickStep == Rnd(Unit, TICK_RATE)

\* a brave branch that never avoids the fence (the fault C27 excludes)
AvoidNever(r, dist, angleToCenter, rolls) == [sheep |-> r.sheep, n |-> r.n + 1]

\* the brave branch: four times in five, the heading toward the centre
\* when beyond 0.9 * FENCE_RADIUS
Avoid(r, dist, angleToCenter, rolls) ==
    IF Draw(rolls, r.n) < 800 /\ dist > Mul(FENCE_RADIUS, 900)
    THEN [sheep |-> [r.sheep EXCEPT
                       !.aiTargetAngle =
                           angleToCenter + Mul(Draw(rolls, r.n + 1) - 500, 400)],
          n |-> r.n + 2]
    ELSE [sheep |-> r.sheep, n |-> r.n + 1]

\* an aggressive branch that chases at times only, as the curious one does
\* (the fault C26 excludes)
ChaseAtTimes(r, nearest, rolls) ==
    IF Draw(rolls, r.n) < 10 /\ nearest.found
    THEN [sheep |-> [r.sheep EXCEPT
                       !.aiTargetAngle =
                           nearest.targetAngle + Mul(Draw(rolls, r.n + 1) - 500, 200)],
          n |-> r.n + 2]
    ELSE [sheep |-> r.sheep, n |-> r.n + 1]

\* the aggressive branch: the heading toward the nearest, if there is one
Chase(r, nearest, rolls) ==
    IF nearest.found
    THEN [sheep |-> [r.sheep EXCEPT
                       !.aiTargetAngle =
                           nearest.targetAngle + Mul(Draw(rolls, r.n) - 500, 200)],
          n |-> r.n + 1]
    ELSE r

\* the personality branch of the AI step; r: the sheep and the draws made
Behave(players, r, rolls) ==
    LET sheep == r.sheep
        p == sheep.personality
        n == r.n
        dist == Hypot(sheep.position.x, sheep.position.z)
        angleToCenter == Atan2(-sheep.position.x, -sheep.position.z)
        nearest == Nearest(players, sheep, 1, NoTarget)
    IN  IF p = "timid" /\ sheep.scaredTimer > 0
        THEN IF dist > Mul(FENCE_RADIUS, 900)
             THEN [sheep |-> [sheep EXCEPT
                                !.scaredTimer = sheep.scaredTimer - TickStep,
                                !.aiTargetAngle = angleToCenter + Mul(Draw(rolls, n) - 500, 400),
                                !.aiTimer = 100],
                   n |-> n + 1]
             ELSE [sheep |-> [sheep EXCEPT !.scaredTimer = sheep.scaredTimer - TickStep],
                   n |-> n]
        ELSE IF p = "brave"
        THEN Avoid(r, dist, angleToCenter, rolls)
        ELSE IF p = "curious"
        THEN IF Draw(rolls, n) < 10 /\ nearest.found
             THEN [sheep |-> [sheep EXCEPT
                                !.aiTargetAngle =
                                    nearest.targetAngle + Mul(Draw(rolls, n + 1) - 500, 300)],
                   n |-> n + 2]
             ELSE [sheep |-> sheep, n |-> n + 1]
        ELSE IF p = "hyper"
        THEN IF sheep.aiTimer <= 0
             THEN [sheep |-> [sheep EXCEPT !.aiTimer = 500 + Mul(Draw(rolls, n), 500)],
                   n |-> n + 1]
             ELSE r
        ELSE IF p = "aggressive"
        THEN Chase(r, nearest, rolls)
        ELSE r

\* a random walk that gives every personality the long timer (the fault
\* C28 excludes)
RandomWalkLong(r, rolls) ==
    LET sheep == r.sheep
        p == sheep.personality
        n == r.n
        aiTimer == sheep.aiTimer - TickStep
    IN  IF aiTimer <= 0 /\ (p # "timid" \/ sheep.aiAvoidTimer <= 0)
        THEN [sheep |-> [sheep EXCEPT
                           !.aiTargetAngle = Mul(Draw(rolls, n), TwoPi),
                           !.aiTimer = 2000 + Mul(Draw(rolls, n + 1), 3000)],
              n |-> n + 2]
        ELSE [sheep |-> [sheep EXCEPT !.aiTimer = aiTimer], n |-> n]

\* the random-walk timer of the AI step
RandomWalk(r, rolls) ==
    LET sheep == r.sheep
        p == sheep.personality
        n == r.n
        aiTimer == sheep.aiTimer - TickStep
    IN  IF aiTimer <= 0 /\ (p # "timid" \/ sheep.aiAvoidTimer <= 0)
        THEN [sheep |-> [sheep EXCEPT
                           !.aiTargetAngle = Mul(Draw(rolls, n), TwoPi),
                           !.aiTimer = IF p = "hyper" THEN 500 + Mul(Draw(rolls, n + 1), 500)
                                       ELSE 2000 + Mul(Draw(rolls, n + 1), 3000)],
              n |-> n + 2]
        ELSE [sheep |-> [sheep EXCEPT !.aiTimer = aiTimer], n |-> n]

turnSpeedOf(p) ==
    IF p = "timid" THEN 90 ELSE IF p = "brave" THEN 50 ELSE IF p = "curious" THEN 70
    ELSE IF p = "hyper" THEN 130 ELSE 70

moveSpeedOf(p) ==
    IF p = "timid" THEN 600 ELSE IF p = "brave" THEN 800 ELSE IF p = "curious" THEN 700
    ELSE IF p = "hyper" THEN 1100 ELSE 700

\* a movement whose thrust goes through the speed clamp at once (the fault
\* C25 excludes)
SteerClamped(sheep) ==
    LET p == sheep.personality
        angleDiff == NormalizeAngle(sheep.aiTargetAngle - sheep.rotation)
        angularVelocity == Mul(angleDiff, turnSpeedOf(p))
        rotation == sheep.rotation + angularVelocity
    IN  Clamp([sheep EXCEPT
                 !.angularVelocity = angularVelocity,
                 !.rotation = rotation,
                 !.velocityX = sheep.velocityX + Mul(Mul(Sin(rotation), ACCELERATION), moveSpeedOf(p)),
                 !.velocityZ = sheep.velocityZ + Mul(Mul(Cos(rotation), ACCELERATION), moveSpeedOf(p))])

\* the movement of the AI step: turn toward the target angle, thrust forward
Steer(sheep) ==
    LET p == sheep.personality
        angleDiff == NormalizeAngle(sheep.aiTargetAngle - sheep.rotation)
        angularVelocity == Mul(angleDiff, turnSpeedOf(p))
        rotation == sheep.rotation + angularVelocity
    IN  [sheep EXCEPT
           !.angularVelocity = angularVelocity,
           !.rotation = rotation,
           !.velocityX = sheep.velocityX + Mul(Mul(Sin(rotation), ACCELERATION), moveSpeedOf(p)),
           !.velocityZ = sheep.velocityZ + Mul(Mul(Cos(rotation), ACCELERATION), moveSpeedOf(p))]

\* the AI step of one alive sheep
Steered(r) == [sheep |-> Steer(r.sheep), n |-> r.n]

AIStep(players, sheep, rolls, n) ==
    Steered(RandomWalk(Behave(players, [sheep |-> sheep, n |-> n], rolls), rolls))

\* the second loop of the tick, over aiSheepIds from index k on
Thought(w, i, r) ==
    [w EXCEPT !.players[i] = r.sheep,
              !.n = r.n,
              !.stages = Append(w.stages, <<"ai", w.players[i].id>>)]

\* a second loop that does not skip the dead (the fault C4 excludes)
RECURSIVE AILoopAll(_, _, _)
AILoopAll(w, rolls, k) ==
    IF k > Len(aiSheepIds) THEN w
    ELSE LET i == IndexOf(w.players, aiSheepIds[k], 1)
         IN  IF i = 0 THEN AILoopAll(w, rolls, k + 1)
             ELSE AILoopAll(Thought(w, i, AIStep(w.players, w.players[i], rolls, w.n)),
                            rolls, k + 1)

RECURSIVE AILoop(_, _, _)
AILoop(w, rolls, k) ==
    IF k > Len(aiSheepIds) THEN w
    ELSE LET i == IndexOf(w.players, aiSheepIds[k], 1)
         IN  IF i = 0 \/ w.players[i].isDead
             THEN AILoop(w, rolls, k + 1)
             ELSE AILoop(Thought(w, i, AIStep(w.players, w.players[i], rolls, w.n)),
                         rolls, k + 1)

\* one entry of the state message
playerState(player) ==
    [id |-> player.id,
     position |-> player.position,
     rotation |-> [x |-> player.rotationX, y |-> player.rotation, z |-> player.rotationZ],
     isDead |-> player.isDead,
     personality |-> player.personality]

\* a state message of the living only (the fault C5 excludes)
StateMessageAlive(players) ==
    [type |-> "state",
     players |-> [i \in 1..Len(SelectSeq(players, LAMBDA e : ~e.isDead)) |->
                    playerState(SelectSeq(players, LAMBDA e : ~e.isDead)[i])]]

StateMessage(players) ==
    [type |-> "state", players |-> [i \in 1..Len(players) |-> playerState(players[i])]]

\* a state broadcast sent ahead of the tick's death messages (the fault C34
\* excludes)
BroadcastStateFirst(w, clients) ==
    [w EXCEPT !.sent = <<broadcast(StateMessage(w.players), clients)>> \o w.sent,
              !.stages = Append(w.stages, <<"broadcast", Null>>)]

\* the state broadcast that ends the tick
BroadcastState(w, clients) ==
    [w EXCEPT !.sent = Append(w.sent, broadcast(StateMessage(w.players), clients)),
              !.stages = Append(w.stages, <<"broadcast", Null>>)]

\* a tick with the two loops the other way round (the fault C3 excludes)
GameLoopAIFirst(players, inputStates, clients, rolls) ==
    BroadcastState(
        PhysicsLoop(AILoop([players |-> players, n |-> 0, sent |-> <<>>, stages |-> <<>>],
                           rolls, 1),
                    inputStates, clients, rolls, 1),
        clients)

\* the whole setInterval callback
GameLoop(players, inputStates, clients, rolls) ==
    BroadcastState(
        AILoop(PhysicsLoop([players |-> players, n |-> 0, sent |-> <<>>, stages |-> <<>>],
                           inputStates, clients, rolls, 1),
               rolls, 1),
        clients)

\* ------------------------------------------------------------ state -------
VARIABLES
    players,      \* the players object: the entities, in insertion order
    inputStates,  \* the inputStates object: id -> the four key flags
    clients,      \* wss.clients: the sockets not yet closed, id -> readyState
    nextId,       \* how many connections were accepted (the next uuid)
    sent,         \* the messages sent by the last handler run, in order
    stages,       \* the stages the last tick ran, in order
    last,         \* the handler that ran last
    prev,         \* the players object before the last handler ran
    ticks,        \* ticks so far
    handled,      \* socket events handled so far
    deadFor,      \* id -> the ticks in a row, up to the last one, that took
                  \* the dead branch for it
    received      \* messages: the client message the last socket handler
                  \* run was given, with the id of its connection (none: it
                  \* was given none), in the behaviours that keep track of it

vars == <<players, inputStates, clients, nextId, sent, stages, last, prev, ticks, handled,
          deadFor, received, aiSheepIds>>

\* received at the start of a behaviour that keeps track of the client
\* messages, or does not
Tracking(on) == [tracked |-> on, messages |-> <<>>]

\* what a handler run leaves in received
Noted(messages) == [received EXCEPT !.messages = IF received.tracked THEN messages ELSE <<>>]

Ids(ps) == {ps[i].id : i \in 1..Len(ps)}

Entity(ps, id) == ps[IndexOf(ps, id, 1)]

\* a delete that also clears away the dead (the fault C21 excludes)
DeleteWithDead(ps, id) == SelectSeq(ps, LAMBDA e : e.id # id /\ ~e.isDead)

\* delete players[id]
Delete(ps, id) == SelectSeq(ps, LAMBDA e : e.id # id)

\* a disconnection that leaves the input record behind (the fault C14 excludes)
KeepInput(inputs, id) == inputs

\* delete inputStates[id]
DeleteInput(inputs, id) == [k \in DOMAIN inputs \ {id} |-> inputs[k]]

\* a set-up loop that gives every sheep past the end of the list the last
\* personality (the fault C30 excludes)
RECURSIVE SetupAIUnwrapped(_, _, _)
SetupAIUnwrapped(rolls, k, count) ==
    IF k > count THEN <<>>
    ELSE LET i == k - 1
             n == 4 * i
         IN  <<createAISheep(aiSheepId(i),
                             AI_PERSONALITIES[IF k > Len(AI_PERSONALITIES)
                                              THEN Len(AI_PERSONALITIES) ELSE k],
                             Draw(rolls, n), Draw(rolls, n + 1),
                             Draw(rolls, n + 2), Draw(rolls, n + 3))>>
             \o SetupAIUnwrapped(rolls, k + 1, count)

\* the AI sheep created at start-up by a set-up loop for count sheep, from
\* sheep k on
RECURSIVE SetupAI(_, _, _)
SetupAI(rolls, k, count) ==
    IF k > count THEN <<>>
    ELSE LET i == k - 1
             n == 4 * i
         IN  <<createAISheep(aiSheepId(i),
                             AI_PERSONALITIES[(i % Len(AI_PERSONALITIES)) + 1],
                             Draw(rolls, n), Draw(rolls, n + 1),
                             Draw(rolls, n + 2), Draw(rolls, n + 3))>>
             \o SetupAI(rolls, k + 1, count)

Init ==
    /\ \E rolls \in Rolls : players = SetupAI(rolls, 1, AI_SHEEP_COUNT)
    /\ inputStates = <<>>
    /\ clients = <<>>
    /\ nextId = 0
    /\ sent = <<>>
    /\ stages = <<>>
    /\ last = "start"
    /\ prev = players
    /\ ticks = 0
    /\ handled = 0
    /\ deadFor = [id \in Ids(players) |-> 0]
    /\ received = Tracking(TRUE)
    /\ aiSheepIds = SheepIds(AI_SHEEP_COUNT)

\* ------------------------------------------------------------ handlers ----
\* the game loop, every 1000 / TICK_RATE ms
IntervalOf(rolls) ==
    /\ \E w \in {GameLoop(players, inputStates, clients, rolls)} :
         /\ players' = w.players
         /\ sent' = w.sent
         /\ stages' = w.stages
    /\ ticks' = ticks + 1
    /\ deadFor' = [id \in Ids(players) |->
                     IF Entity(players, id).isDead THEN deadFor[id] + 1 ELSE 0]
    /\ last' = "tick"
    /\ prev' = players
    /\ UNCHANGED <<inputStates, clients, nextId, handled, received, aiSheepIds>>

Interval == \E rolls \in Rolls : IntervalOf(rolls)

Tick == ticks < MaxTicks /\ Interval

InitMessage(player) == [type |-> "init", id |-> player.id, initialPlayerState |-> player]

ConnectMessage(player) ==
    [type |-> "connect",
     player |-> [id |-> player.id,
                 position |-> player.position,
                 rotation |-> [x |-> 0, y |-> player.rotation, z |-> 0],
                 isDead |-> FALSE,
                 personality |-> player.personality]]

\* a connection handler that relays the connect message to every OPEN
\* client, the new one included (the fault C18 excludes)
ConnectionRelayedToAll ==
    /\ nextId < MaxConns
    /\ handled < MaxEvents
    /\ \E rolls \in Rolls :
         LET id == uuidv4(nextId + 1)
             spawnPos == getRandomSpawn(Draw(rolls, 0), Draw(rolls, 1))
             player == createPlayer(id, spawnPos, Draw(rolls, 2))
         IN  /\ players' = Append(players, player)
             /\ inputStates' = (id :> NoInput) @@ inputStates
             /\ clients' = (id :> "OPEN") @@ clients
             /\ sent' = << [message |-> InitMessage(player), to |-> {id}],
                           broadcast(ConnectMessage(player), clients') >>
    /\ nextId' = nextId + 1
    /\ stages' = <<>>
    /\ last' = "connection"
    /\ prev' = players
    /\ handled' = handled + 1
    /\ deadFor' = (uuidv4(nextId + 1) :> 0) @@ deadFor
    /\ received' = Noted(<<>>)
    /\ UNCHANGED <<ticks, aiSheepIds>>

\* wss.on('connection')
Connection ==
    /\ nextId < MaxConns
    /\ handled < MaxEvents
    /\ \E rolls \in Rolls :
         LET id == uuidv4(nextId + 1)
             spawnPos == getRandomSpawn(Draw(rolls, 0), Draw(rolls, 1))
             player == createPlayer(id, spawnPos, Draw(rolls, 2))
         IN  /\ players' = Append(players, player)
             /\ inputStates' = (id :> NoInput) @@ inputStates
             /\ clients' = (id :> "OPEN") @@ clients
             /\ sent' = << [message |-> InitMessage(player), to |-> {id}],
                           broadcast(ConnectMessage(player), clients) >>
    /\ nextId' = nextId + 1
    /\ stages' = <<>>
    /\ last' = "connection"
    /\ prev' = players
    /\ handled' = handled + 1
    /\ deadFor' = (uuidv4(nextId + 1) :> 0) @@ deadFor
    /\ received' = Noted(<<>>)
    /\ UNCHANGED <<ticks, aiSheepIds>>

\* what a client may send: input messages, well-formed or not, and anything else
Keys == {"w", "a", "s", "d"}

\* a JSON value with its typeof
Value(t, v) == [t |-> t, v |-> v]

\* a message that JSON.parse accepts
Parsed(type, key, pressed) == [json |-> TRUE, type |-> type, key |-> key, pressed |-> pressed]

\* the well-formed input messages; then a message of another type, an
\* unknown key, a key that is not a string, a pressed that is not a boolean,
\* and a text that JSON.parse rejects
ClientMessages ==
    {Parsed("input", Value("string", k), Value("boolean", b)) : k \in Keys, b \in BOOLEAN}
      \cup {Parsed("chat", Value("string", "w"), Value("boolean", TRUE)),
            Parsed("input", Value("string", "x"), Value("boolean", TRUE)),
            Parsed("input", Value("number", "7"), Value("boolean", TRUE)),
            Parsed("input", Value("string", "w"), Value("string", TRUE)),
            [json |-> FALSE, type |-> "", key |-> Value("string", ""),
             pressed |-> Value("boolean", FALSE)]}

\* a message handler that writes the flag into every record (the fault C15
\* excludes)
OnMessageEveryone(id, data) ==
    IF /\ data.json
       /\ data.type = "input" /\ id \in DOMAIN inputStates
       /\ data.key.t = "string" /\ data.pressed.t = "boolean" /\ data.key.v \in Keys
    THEN [c \in DOMAIN inputStates |-> [inputStates[c] EXCEPT ![data.key.v] = data.pressed.v]]
    ELSE inputStates

\* a message handler that does not look at the types of key and pressed
\* (the fault C16 excludes)
OnMessageUntyped(id, data) ==
    IF /\ data.json
       /\ data.type = "input" /\ id \in DOMAIN inputStates
       /\ data.key.v \in Keys
    THEN [inputStates EXCEPT ![id][data.key.v] = data.pressed.v]
    ELSE inputStates

\* a message handler that listens to the living only (the fault C38 excludes)
OnMessageAlive(id, data) ==
    IF /\ data.json
       /\ data.type = "input" /\ id \in DOMAIN inputStates
       /\ data.key.t = "string" /\ data.pressed.t = "boolean" /\ data.key.v \in Keys
       /\ ~Entity(players, id).isDead
    THEN [inputStates EXCEPT ![id][data.key.v] = data.pressed.v]
    ELSE inputStates

\* ws.on('message')
OnMessage(id, data) ==
    IF /\ data.json
       /\ data.type = "input" /\ id \in DOMAIN inputStates
       /\ data.key.t = "string" /\ data.pressed.t = "boolean" /\ data.key.v \in Keys
    THEN [inputStates EXCEPT ![id][data.key.v] = data.pressed.v]
    ELSE inputStates

Message ==
    /\ handled < MaxEvents
    /\ handled' = handled + 1
    /\ \E id \in DOMAIN clients : \E data \in ClientMessages :
         /\ inputStates' = OnMessage(id, data)
         /\ received' = Noted(<<[from |-> id, data |-> data]>>)
    /\ sent' = <<>>
    /\ stages' = <<>>
    /\ last' = "message"
    /\ prev' = players
    /\ UNCHANGED <<players, clients, nextId, ticks, deadFor, aiSheepIds>>

DisconnectMessage(id) == [type |-> "disconnect", id |-> id]

\* a socket leaves the OPEN state (a closing handshake has begun); no handler
\* of the program runs
Closing ==
    /\ handled < MaxEvents
    /\ \E id \in DOMAIN clients :
         /\ clients[id] = "OPEN"
         /\ clients' = [clients EXCEPT ![id] = "CLOSING"]
    /\ sent' = <<>>
    /\ stages' = <<>>
    /\ last' = "closing"
    /\ prev' = players
    /\ handled' = handled + 1
    /\ received' = Noted(<<>>)
    /\ UNCHANGED <<players, inputStates, nextId, ticks, deadFor, aiSheepIds>>

\* ws.on('close'): the socket is closed and no longer among wss.clients
Close ==
    /\ handled < MaxEvents
    /\ \E id \in DOMAIN clients :
         LET rest == [c \in DOMAIN clients \ {id} |-> clients[c]]
         IN  /\ clients' = rest
             /\ players' = Delete(players, id)
             /\ inputStates' = DeleteInput(inputStates, id)
             /\ sent' = << broadcast(DisconnectMessage(id), rest) >>
    /\ stages' = <<>>
    /\ last' = "close"
    /\ prev' = players
    /\ handled' = handled + 1
    /\ deadFor' = [id \in Ids(players') |-> deadFor[id]]
    /\ received' = Noted(<<>>)
    /\ UNCHANGED <<nextId, ticks, aiSheepIds>>

\* an error handler that only logs the error (the fault C17 excludes)
SocketErrorLogged ==
    /\ handled < MaxEvents
    /\ \E id \in DOMAIN clients :
         /\ clients[id] = "OPEN"
         /\ clients' = [clients EXCEPT ![id] = "CLOSING"]
    /\ sent' = <<>>
    /\ stages' = <<>>
    /\ last' = "error"
    /\ prev' = players
    /\ handled' = handled + 1
    /\ received' = Noted(<<>>)
    /\ UNCHANGED <<players, inputStates, nextId, ticks, deadFor, aiSheepIds>>

\* ws.on('error'): the failing socket is no longer OPEN; its close event
\* follows
SocketError ==
    /\ handled < MaxEvents
    /\ \E id \in DOMAIN clients :
         LET failing == [clients EXCEPT ![id] = "CLOSING"]
         IN  /\ clients[id] = "OPEN"
             /\ clients' = failing
             /\ players' = Delete(players, id)
             /\ inputStates' = DeleteInput(inputStates, id)
             /\ sent' = << broadcast(DisconnectMessage(id), failing) >>
    /\ stages' = <<>>
    /\ last' = "error"
    /\ prev' = players
    /\ handled' = handled + 1
    /\ deadFor' = [id \in Ids(players') |-> deadFor[id]]
    /\ received' = Noted(<<>>)
    /\ UNCHANGED <<nextId, ticks, aiSheepIds>>

Next == Tick \/ Connection \/ Message \/ Closing \/ Close \/ SocketError

Spec == Init /\ [][Next]_vars

\* ------------------------------------------------------------ the lobby --
\* The server soon after its start: the AI sheep are where they were
\* created, and one player has connected.
InitLobby ==
    /\ players = SetupAI(<<250, 900, 500>>, 1, AI_SHEEP_COUNT)
                   \o <<createPlayer(uuidv4(1), getRandomSpawn(900, 500), 250)>>
    /\ inputStates = (uuidv4(1) :> NoInput)
    /\ clients = (uuidv4(1) :> "OPEN")
    /\ nextId = 1
    /\ sent = <<>>
    /\ stages = <<>>
    /\ last = "start"
    /\ prev = players
    /\ ticks = 0
    /\ handled = 0
    /\ deadFor = [id \in Ids(players) |-> 0]
    /\ received = Tracking(TRUE)
    /\ aiSheepIds = SheepIds(AI_SHEEP_COUNT)

SpecLobby == InitLobby /\ [][Next]_vars

\* ------------------------------------------------------------ mid-game ----
\* A game that has been running: every sheep, and the one player when there
\* is one, has walked straight on (heading 0, toward +z) long enough to have
\* settled at its cruising speed.  It is now close to the fence, or it has
\* crossed the fence and has been dead for some ticks.

\* one tick of an entity that walks on
Stride(e, input) == IF e.isAI THEN Steer(Integrate(e, input)) ELSE Integrate(e, input)

RECURSIVE Walk(_, _, _)
Walk(e, input, n) == IF n = 0 THEN e ELSE Walk(Stride(e, input), input, n - 1)

\* an entity after so many ticks of walking straight on that its speed has
\* settled (looked at every 15 ticks, which keeps the evaluation shallow)
RECURSIVE Settle(_, _)
Settled(e, e2, input) ==
    IF e2.velocityZ = e.velocityZ /\ e2.velocityX = e.velocityX THEN e ELSE Settle(e2, input)

Settle(e, input) == Settled(e, Walk(e, input, 15), input)

\* a dead entity after n more ticks of the countdown (in runs of at most 15
\* ticks, which keeps the evaluation shallow)
RECURSIVE WaitFew(_, _)
WaitFew(player, n) ==
    IF n = 0 \/ ~player.isDead THEN player
    ELSE WaitFew(DeadStep(player, <<0>>, 0).player, n - 1)

RECURSIVE Wait(_, _)
Wait(player, n) ==
    IF n <= 15 \/ ~player.isDead THEN WaitFew(player, n)
    ELSE Wait(WaitFew(player, 15), n - 15)

Forward == [NoInput EXCEPT !.w = TRUE]

\* where an entity is picked up: walking at that distance from the centre,
\* or dead for that many ticks after walking through the fence
AtRim == [walking |-> TRUE, at |-> 99500]
Inside == [walking |-> TRUE, at |-> 98000]
LongDead == [walking |-> FALSE, at |-> 179]

\* the scenes a behaviour starts from: the start of sheep number i, i from 0
ArenaScenes ==
    { [i \in 0..(AI_SHEEP_COUNT - 1) |-> AtRim],
      [i \in 0..(AI_SHEEP_COUNT - 1) |-> LongDead],
      [i \in 0..(AI_SHEEP_COUNT - 1) |-> IF i % 2 = 0 THEN AtRim ELSE Inside],
      [i \in 0..(AI_SHEEP_COUNT - 1) |-> IF i % 2 = 0 THEN LongDead ELSE AtRim] }

At(e, z) == [e EXCEPT !.position = [x |-> 0, y |-> GROUND_Y, z |-> z]]

Place(e, input, start) ==
    IF start.walking THEN At(e, start.at)
    ELSE Wait(AliveStep(At(e, AtRim.at), input, <<>>).player, start.at)

ArenaSheep(i, start) ==
    LET sheep == createAISheep(aiSheepId(i),
                               AI_PERSONALITIES[(i % Len(AI_PERSONALITIES)) + 1], 0, 0, 0, 0)
    IN  Place(Settle([sheep EXCEPT !.aiTimer = 1000], NoInput), NoInput, start)

ArenaPlayer(start) ==
    Place(Settle(createPlayer(uuidv4(1), getRandomSpawn(250, 999), 0), Forward),
          Forward, start)

InitArena ==
    /\ \E scene \in ArenaScenes :
         \E joined \in BOOLEAN : \E start \in {AtRim, LongDead} :
           /\ players = [k \in 1..AI_SHEEP_COUNT |-> ArenaSheep(k - 1, scene[k - 1])]
                          \o (IF joined THEN <<ArenaPlayer(start)>> ELSE <<>>)
           /\ inputStates = IF joined THEN (uuidv4(1) :> Forward) ELSE <<>>
           /\ clients = IF joined THEN (uuidv4(1) :> "OPEN") ELSE <<>>
           /\ nextId = IF joined THEN 1 ELSE 0
    /\ sent = <<>>
    /\ stages = <<>>
    /\ last = "start"
    /\ prev = players
    /\ ticks = 0
    /\ handled = 0
    /\ deadFor = [id \in Ids(players) |-> IF Entity(players, id).isDead THEN LongDead.at ELSE 0]
    /\ received = Tracking(FALSE)
    /\ aiSheepIds = SheepIds(AI_SHEEP_COUNT)

SpecArena == InitArena /\ [][Next]_vars

\* ------------------------------------------------------------ the countdown
\* A whole respawn countdown: everyone walks through the fence in the first
\* tick, and the game loop alone runs until the countdown is over and
\* MaxTicks more ticks have passed.
InitRespawn ==
    /\ \E joined \in BOOLEAN :
         /\ players = [k \in 1..AI_SHEEP_COUNT |-> ArenaSheep(k - 1, AtRim)]
                        \o (IF joined THEN <<ArenaPlayer(AtRim)>> ELSE <<>>)
         /\ inputStates = IF joined THEN (uuidv4(1) :> Forward) ELSE <<>>
         /\ clients = IF joined THEN (uuidv4(1) :> "OPEN") ELSE <<>>
         /\ nextId = IF joined THEN 1 ELSE 0
    /\ sent = <<>>
    /\ stages = <<>>
    /\ last = "start"
    /\ prev = players
    /\ ticks = 0
    /\ handled = 0
    /\ deadFor = [id \in Ids(players) |-> 0]
    /\ received = Tracking(FALSE)
    /\ aiSheepIds = SheepIds(AI_SHEEP_COUNT)

LongTick == ticks < MaxTicks + RESPAWN_TIME * TICK_RATE + 1 /\ Interval

SpecRespawn == InitRespawn /\ [][LongTick]_vars

\* ------------------------------------------------------------ scenarios ---
\* A test that writes the fields of one entity (sheep 0, which is timid, or
\* the connected player) and then lets the server run.  The others walk
\* inside the arena.
\* 100.5 from the centre, with the fence at 100
Beyond == FENCE_RADIUS + Unit \div 2

Grounded == [z |-> 98000, velocityX |-> 0, velocityZ |-> 0, tilt |-> 0, y |-> GROUND_Y,
             scaredTimer |-> 0, isDead |-> FALSE]

\* thrown across the ground faster than MAX_SPEED (1.5 sideways, 2.5 ahead)
Thrown == [Grounded EXCEPT !.velocityX = MAX_SPEED, !.velocityZ = MAX_SPEED + Unit]

Scenarios ==
    {[Grounded EXCEPT !.z = Beyond, !.velocityZ = v] : v \in {-1500, 0, 941}}
      \cup {[Grounded EXCEPT !.tilt = t] : t \in {TILT_DEATH_RAD + 300, -TILT_DEATH_RAD - 300}}
      \cup {[Grounded EXCEPT !.z = Beyond, !.tilt = TILT_DEATH_RAD + 300],
            [Grounded EXCEPT !.tilt = TILT_DEATH_RAD + 300, !.scaredTimer = 500],
            [Grounded EXCEPT !.tilt = TILT_DEATH_RAD + 300, !.y = 5000],
            [Grounded EXCEPT !.z = Beyond, !.tilt = TILT_DEATH_RAD + 300, !.isDead = TRUE],
            [Grounded EXCEPT !.z = Beyond, !.tilt = TILT_DEATH_RAD + 300, !.scaredTimer = 500],
            [Grounded EXCEPT !.tilt = TILT_DEATH_RAD + 300, !.y = 5000, !.scaredTimer = 500],
            Thrown}

\* the entity e with the fields of the scenario written into it
Arrange(e, scenario) ==
    LET set == [e EXCEPT !.position = [x |-> 0, y |-> scenario.y, z |-> scenario.z],
                         !.velocityX = scenario.velocityX,
                         !.velocityZ = scenario.velocityZ,
                         !.rotationZ = scenario.tilt,
                         !.scaredTimer = scenario.scaredTimer]
    IN  IF scenario.isDead THEN Die(set) ELSE set

InitScenario ==
    /\ \E scenario \in Scenarios : \E sheep \in BOOLEAN :
         players = [k \in 1..AI_SHEEP_COUNT |->
                      IF sheep /\ k = 1 THEN Arrange(ArenaSheep(0, Inside), scenario)
                      ELSE ArenaSheep(k - 1, Inside)]
                   \o <<IF sheep THEN ArenaPlayer(Inside)
                        ELSE Arrange(ArenaPlayer(Inside), scenario)>>
    /\ inputStates = (uuidv4(1) :> NoInput)
    /\ clients = (uuidv4(1) :> "OPEN")
    /\ nextId = 1
    /\ sent = <<>>
    /\ stages = <<>>
    /\ last = "start"
    /\ prev = players
    /\ ticks = 0
    /\ handled = 0
    /\ deadFor = [id \in Ids(players) |-> 0]
    /\ received = Tracking(FALSE)
    /\ aiSheepIds = SheepIds(AI_SHEEP_COUNT)

\* the game loop and the input messages of the connected player
NextScenario == Tick \/ Message

SpecScenario == InitScenario /\ [][NextScenario]_vars

\* ------------------------------------------------------------ the flock ---
\* A flock with every personality, and the first of them twice: the set-up
\* loop run for one sheep more than there are personalities.  The game loop
\* alone runs, from the flock as created (last is "created" there) or from
\* a later moment of it: the random-walk timers run down to a hundredth of
\* a second or to a second, some entities dead, the sheep where they were
\* spawned or spread out on the x axis.  Spread out, the aggressive sheep
\* stands between the hyper sheep, far off, and the last sheep, which is
\* next to it and on its way through the fence; a player that has joined
\* stands next to the curious sheep.
FlockSize == Len(AI_PERSONALITIES) + 1

\* where sheep k stands when the flock is spread out
Line(k) ==
    IF k = FlockSize THEN FENCE_RADIUS - 10
    ELSE IF k = FlockSize - 1 THEN FENCE_RADIUS - 5 * Unit
    ELSE k * k * Unit

Spread(e, x) == [e EXCEPT !.position = [x |-> x, y |-> GROUND_Y, z |-> 0]]

\* the last sheep of the spread-out flock runs toward +x at the speed of a
\* timid sheep
Herded(sheep, k, scene) ==
    LET late == IF scene.aiTimer > 0 THEN [sheep EXCEPT !.aiTimer = scene.aiTimer] ELSE sheep
        placed == IF ~scene.spread THEN late
                  ELSE IF k = FlockSize
                  THEN [Spread(late, Line(k)) EXCEPT !.rotation = Mul(250, TwoPi),
                                                     !.velocityX = moveSpeedOf("timid")]
                  ELSE Spread(late, Line(k))
    IN  IF k \in scene.dead THEN Die(placed) ELSE placed

\* the player of the spread-out flock, one unit from the curious sheep
FlockPlayer(scene) ==
    LET player == Spread(createPlayer(uuidv4(1), getRandomSpawn(0, 0), 0), Line(3) + Unit)
    IN  IF (FlockSize + 1) \in scene.dead THEN Die(player) ELSE player

\* dead: who is dead, sheep k of the flock, FlockSize + 1 for the player
FlockScenes ==
    [aiTimer : {0, 10, 1000},
     dead : {{}, {2, 4}, (1..(FlockSize + 1)) \ {5}, (1..(FlockSize + 1)) \ {3}},
     spread : BOOLEAN]

InitFlock ==
    /\ \E rolls \in Rolls : \E scene \in FlockScenes :
         \E flock \in {SetupAI(rolls, 1, FlockSize)} :
           /\ players = [k \in 1..FlockSize |-> Herded(flock[k], k, scene)]
                          \o (IF scene.spread THEN <<FlockPlayer(scene)>> ELSE <<>>)
           /\ inputStates = IF scene.spread THEN (uuidv4(1) :> NoInput) ELSE <<>>
           /\ clients = IF scene.spread THEN (uuidv4(1) :> "OPEN") ELSE <<>>
           /\ nextId = IF scene.spread THEN 1 ELSE 0
           /\ last = IF scene = [aiTimer |-> 0, dead |-> {}, spread |-> FALSE]
                     THEN "created" ELSE "start"
    /\ sent = <<>>
    /\ stages = <<>>
    /\ prev = players
    /\ ticks = 0
    /\ handled = 0
    /\ deadFor = [id \in Ids(players) |-> 0]
    /\ received = Tracking(FALSE)
    /\ aiSheepIds = SheepIds(FlockSize)

SpecFlock == InitFlock /\ [][Tick]_vars

\* ------------------------------------------------------------ homeward ----
\* The brave sheep beyond 0.9 * FENCE_RADIUS, on the z axis, with every
\* draw of Math.random 0, so that its avoidance roll succeeds in every tick
\* (and the offset of its heading is -0.2 rad): at rest at 0.95 *
\* FENCE_RADIUS with one of eight yaws, or running outward at its cruising
\* speed just past 0.9 * FENCE_RADIUS; its random-walk timer as created or
\* at one second.  The game loop alone runs, HomingTicks ticks of it.
HomingTicks == 90

BraveStarts ==
    [at : {Mul(FENCE_RADIUS, 950)}, yaw : {Mul(k * 125, TwoPi) : k \in 0..7},
     velocityZ : {0}, aiTimer : {0, Unit}]
      \cup [at : {Mul(FENCE_RADIUS, 900) + 100}, yaw : {0},
            velocityZ : {moveSpeedOf("brave")}, aiTimer : {Unit}]

Homing(sheep, start) ==
    IF sheep.personality # "brave" THEN sheep
    ELSE [At(sheep, start.at) EXCEPT !.rotation = start.yaw,
                                     !.velocityZ = start.velocityZ,
                                     !.aiTimer = start.aiTimer]

InitBrave ==
    /\ \E start \in BraveStarts : \E flock \in {SetupAI(<<0>>, 1, AI_SHEEP_COUNT)} :
         players = [k \in 1..AI_SHEEP_COUNT |-> Homing(flock[k], start)]
    /\ inputStates = <<>>
    /\ clients = <<>>
    /\ nextId = 0
    /\ sent = <<>>
    /\ stages = <<>>
    /\ last = "start"
    /\ prev = players
    /\ ticks = 0
    /\ handled = 0
    /\ deadFor = [id \in Ids(players) |-> 0]
    /\ received = Tracking(FALSE)
    /\ aiSheepIds = SheepIds(AI_SHEEP_COUNT)

HomingTick == ticks < HomingTicks /\ IntervalOf(<<0>>)

SpecBrave == InitBrave /\ [][HomingTick]_vars

\* ------------------------------------------------------------ at the keys -
\* One connected player whose input record is held as it is, whatever it
\* is, for HomingTicks ticks: picked up at the centre of the arena, at rest
\* as created, running ahead at its settled speed, or swerving (running
\* at that speed, turned an eighth of a circle away from its way and still
\* turning).
InitDrive ==
    /\ \E input \in [w : BOOLEAN, a : BOOLEAN, s : BOOLEAN, d : BOOLEAN] :
         \E start \in {"rest", "running", "swerving"} :
         \E runner \in {At(Settle(createPlayer(uuidv4(1), getRandomSpawn(0, 0), 0), Forward), 0)} :
           /\ players = SetupAI(<<0>>, 1, AI_SHEEP_COUNT)
                          \o <<IF start = "running" THEN runner
                               ELSE IF start = "swerving"
                               THEN [runner EXCEPT !.rotation = Mul(125, TwoPi),
                                                   !.angularVelocity = 40]
                               ELSE createPlayer(uuidv4(1), getRandomSpawn(0, 0), 0)>>
           /\ inputStates = (uuidv4(1) :> input)
    /\ clients = (uuidv4(1) :> "OPEN")
    /\ nextId = 1
    /\ sent = <<>>
    /\ stages = <<>>
    /\ last = "start"
    /\ prev = players
    /\ ticks = 0
    /\ handled = 0
    /\ deadFor = [id \in Ids(players) |-> 0]
    /\ received = Tracking(FALSE)
    /\ aiSheepIds = SheepIds(AI_SHEEP_COUNT)

SpecDrive == InitDrive /\ [][HomingTick]_vars

\* ------------------------------------------------------------ properties --
\* What the last handler did, read off prev, players, sent and stages.

\* an entity before and after the last handler
Before(id) == Entity(prev, id)
Now(id) == Entity(players, id)

\* the entity as the physics of the last tick left it, before the death checks
Moved(id) == Integrate(Before(id), InputOf(inputStates, id))

\* Math.sqrt(position.x ** 2 + position.z ** 2)
Planar(e) == Hypot(e.position.x, e.position.z)

\* what the tilt check looks at
Tilted(e) ==
    /\ e.position.y <= GROUND_Y + 1
    /\ ~(e.personality = "timid" /\ e.scaredTimer > 0)
    /\ (Abs(e.rotationZ) > TILT_DEATH_RAD \/ Abs(e.rotationX) > TILT_DEATH_RAD)

\* the death messages the last handler sent for an id
DeathsOf(id) ==
    Cardinality({k \in 1..Len(sent) :
                   sent[k].message.type = "death" /\ sent[k].message.id = id})

OpenClients == {c \in DOMAIN clients : clients[c] = "OPEN"}

\* C1: no death message is sent for an entity that is already dead.  A tick
\* sends at most one death message per id, also when the fence condition and
\* the tilt condition both hold, and only for an entity that was alive when
\* the tick began and is dead when it ends, so that a respawn lies between
\* two death messages of one id; no other handler sends a death message.
C1_NoDeathOfTheDead ==
    /\ \A k \in 1..Len(sent) :
          sent[k].message.type = "death" =>
              /\ last = "tick"
              /\ sent[k].message.id \in Ids(prev)
              /\ ~Before(sent[k].message.id).isDead
              /\ Now(sent[k].message.id).isDead
    /\ \A id \in Ids(prev) : DeathsOf(id) <= 1

\* a tick in which an alive entity was past the fence and tilted beyond the
\* limit at once, and one death message went out for it
C1_Witness ==
    /\ last = "tick"
    /\ \E id \in Ids(prev) :
          /\ ~Before(id).isDead
          /\ Planar(Moved(id)) >= FENCE_RADIUS
          /\ Tilted(Moved(id))
          /\ DeathsOf(id) = 1

\* the entity was dead before the last tick and the tick respawned it
Respawned(id) == last = "tick" /\ Before(id).isDead /\ ~Now(id).isDead

AtRest(e) ==
    /\ e.velocityX = 0 /\ e.velocityY = 0 /\ e.velocityZ = 0
    /\ e.angularVelocity = 0
    /\ e.rotationX = 0 /\ e.rotationZ = 0
    /\ e.angularVelocityX = 0 /\ e.angularVelocityZ = 0

\* C2: at the end of the tick that respawns an entity, player or AI, its
\* velocity, yaw rate, tilts and tilt rates are all 0 and isDead is false.
C2_RespawnedAtRest ==
    \A id \in Ids(prev) : Respawned(id) => AtRest(Now(id)) /\ ~Now(id).isDead

\* the place of a stage in the last tick, 0 when it did not run
StageAt(stage, id) ==
    IF \E k \in 1..Len(stages) : stages[k] = <<stage, id>>
    THEN CHOOSE k \in 1..Len(stages) : stages[k] = <<stage, id>>
    ELSE 0

StagesEndInBroadcast ==
    /\ Len(stages) > 0
    /\ StageAt("broadcast", Null) = Len(stages)

C4_DeadIsFrozen ==
    last = "tick" =>
        \A id \in Ids(prev) :
            Before(id).isDead /\ ~DblLeqZero(DblSub(Before(id).respawnTimer, TICK_PERIOD))
                => Now(id) = [Before(id) EXCEPT
                                !.respawnTimer = DblSub(Before(id).respawnTimer, TICK_PERIOD)]

\* a tick that counted down a dead AI sheep while another AI sheep took its
\* AI step
C4_Witness ==
    /\ last = "tick"
    /\ \E id \in Ids(prev) :
          Before(id).isAI /\ Before(id).isDead /\ Now(id).isDead
            /\ Now(id).respawnTimer # Before(id).respawnTimer
    /\ \E id \in Ids(prev) : StageAt("ai", id) > 0

\* the state message of the last tick
StateSent == sent[Len(sent)].message

\* C5: every state message holds exactly one entry for each entity in the
\* store at broadcast time, alive or dead, player or AI, with distinct ids:
\* as many entries as the store has entities, whatever connects,
\* disconnects, deaths and respawns came before.
C5_StateCoversStore ==
    last = "tick" =>
        /\ Len(sent) > 0
        /\ StateSent.type = "state"
        /\ \A k \in 1..(Len(sent) - 1) : sent[k].message.type # "state"
        /\ Len(StateSent.players) = Len(players)
        /\ \A i \in 1..Len(players) : StateSent.players[i] = playerState(players[i])
        /\ \A i, j \in 1..Len(StateSent.players) :
              StateSent.players[i].id = StateSent.players[j].id => i = j

\* a state message after a connection and a disconnect, with a dead entity,
\* a respawned one and a player among its entries
C5_Witness ==
    /\ last = "tick"
    /\ nextId > Cardinality(DOMAIN clients)
    /\ Len(players) > AI_SHEEP_COUNT
    /\ \E i \in 1..Len(players) : players[i].isDead
    /\ \E id \in Ids(prev) : Respawned(id)
    /\ Len(StateSent.players) = Len(players)

\* the entity was alive and 100.5 from the centre when the last tick began
WasBeyond(id) == last = "tick" /\ ~Before(id).isDead /\ Planar(Before(id)) = Beyond

Killed(id) ==
    /\ DeathsOf(id) = 1
    /\ Now(id).isDead
    /\ Now(id).respawnTimer = DblOf(RESPAWN_TIME)

\* C6 as stated: an alive entity 100.5 from the centre at the start of a
\* tick, whatever its velocity and input, gets exactly one death message in
\* that tick and ends it dead with respawnTimer = 3.
C6_BeyondIsKilled ==
    \A id \in Ids(prev) : WasBeyond(id) => Killed(id)

\* C6, amended: an alive entity 100.5 from the centre at the start of a tick
\* whose distance is still >= the fence radius after the position update of
\* that tick gets exactly one death message in the tick and ends it dead
\* with respawnTimer = 3; one that the position update brings back inside
\* the fence radius is not killed by the fence (it ends the tick alive
\* unless its tilt kills it).
C6_StillBeyondIsKilled ==
    \A id \in Ids(prev) :
        WasBeyond(id) =>
            IF Planar(Moved(id)) >= FENCE_RADIUS THEN Killed(id)
            ELSE Now(id).isDead => Tilted(Moved(id))

\* a tick that began with an alive, untilted entity at 100.5, still outside
\* after the position update, and killed it
C6_Witness ==
    \E id \in Ids(prev) :
        /\ WasBeyond(id)
        /\ ~Tilted(Moved(id))
        /\ Planar(Moved(id)) >= FENCE_RADIUS
        /\ Killed(id)

\* C7: once a tick has run, every alive entity is strictly inside the fence
\* and, when on the ground and not a scared timid sheep, tilted by no more
\* than the tilt death angle about either axis; an entity that the physics
\* of a tick left outside the fence or tilted beyond the limit is dead at
\* the end of that tick.
C7_AliveInsideAndUpright ==
    /\ ticks > 0 =>
          \A i \in 1..Len(players) :
              ~players[i].isDead =>
                  Planar(players[i]) < FENCE_RADIUS /\ ~Tilted(players[i])
    /\ last = "tick" =>
          \A id \in Ids(prev) :
              /\ ~Before(id).isDead
              /\ Planar(Moved(id)) >= FENCE_RADIUS \/ Tilted(Moved(id))
              => Now(id).isDead

\* a tick that killed an entity inside the fence by its tilt, the others
\* alive and inside
C7_Witness ==
    /\ last = "tick"
    /\ \E id \in Ids(prev) :
          /\ ~Before(id).isDead /\ Now(id).isDead
          /\ Planar(Moved(id)) < FENCE_RADIUS /\ Tilted(Moved(id))
          /\ \A other \in Ids(prev) \ {id} : ~Now(other).isDead

\* C8: every Alive->Dead transition of an entity sets respawnTimer to
\* RESPAWN_TIME and, in the same tick, sends one death message with the id
\* and the position of the entity at the moment of its death to every open
\* connection (and to no other); isDead never turns true without it.
C8_DeathIsAnnounced ==
    \A id \in Ids(prev) \cap Ids(players) :
        ~Before(id).isDead /\ Now(id).isDead =>
            /\ last = "tick"
            /\ Now(id).respawnTimer = DblOf(RESPAWN_TIME)
            /\ DeathsOf(id) = 1
            /\ \E k \in 1..Len(sent) :
                  /\ sent[k].message = [type |-> "death", id |-> id,
                                        position |-> Moved(id).position]
                  /\ sent[k].to = OpenClients
            /\ Now(id).position = Moved(id).position

\* a death in a tick with one connection open and another one closing
C8_Witness ==
    /\ last = "tick"
    /\ \E id \in Ids(prev) : ~Before(id).isDead /\ Now(id).isDead
    /\ OpenClients # {}
    /\ OpenClients # DOMAIN clients

\* C9 as stated: an entity that died respawns after exactly
\* RESPAWN_TIME * TICK_RATE (= 180) ticks of countdown: the tick that
\* respawns it is the 180th tick after the tick of its death.
C9_RespawnAfter180Ticks ==
    \A id \in Ids(prev) : Respawned(id) => deadFor[id] = RESPAWN_TIME * TICK_RATE

\* C10: a respawn puts the entity at ground height, a player exactly at the
\* x and z of the spawn point stored for it at its connection, any other at
\* a freshly drawn point of the spawn disk, and in both cases no further
\* than the spawn radius from the centre; no handler changes the stored
\* spawn point of a player.
C10_RespawnInSpawnDisk ==
    /\ \A id \in Ids(prev) :
          Respawned(id) =>
              /\ Now(id).position.y = GROUND_Y
              /\ Planar(Now(id)) <= SPAWN_RADIUS
              /\ IF Now(id).spawn # Null
                 THEN /\ Now(id).position.x = Now(id).spawn[1].x
                      /\ Now(id).position.z = Now(id).spawn[1].z
                 ELSE \E rolls \in Rolls : \E m, n \in 1..Len(rolls) :
                        Now(id).position = getRandomSpawn(rolls[m], rolls[n])
    /\ \A id \in Ids(prev) \cap Ids(players) : Now(id).spawn = Before(id).spawn

\* a tick that respawned a player at its spawn point, away from where it
\* died, and an AI sheep away from the centre
C10_Witness ==
    /\ \E id \in Ids(prev) :
          Respawned(id) /\ Now(id).spawn # Null /\ Now(id).position # Before(id).position
    /\ \E id \in Ids(prev) :
          Respawned(id) /\ Now(id).spawn = Null /\ Planar(Now(id)) > 0

\* velocityX ** 2 + velocityZ ** 2
SpeedSquared(e) == e.velocityX * e.velocityX + e.velocityZ * e.velocityZ

\* the square of the planar distance between two places of an entity
MovedSquared(e, f) ==
    (f.position.x - e.position.x) * (f.position.x - e.position.x)
      + (f.position.z - e.position.z) * (f.position.z - e.position.z)

C12_ForwardReachesMaxSpeed ==
    last = "tick" =>
        \A id \in Ids(prev) :
            (~Before(id).isAI /\ ~Before(id).isDead /\ InputOf(inputStates, id) = Forward) =>
                /\ SpeedSquared(Moved(id)) <= MAX_SPEED * MAX_SPEED
                /\ (/\ Moved(id).velocityX = Before(id).velocityX
                    /\ Moved(id).velocityZ = Before(id).velocityZ)
                      => SpeedSquared(Moved(id)) >= (MAX_SPEED - 100) * (MAX_SPEED - 100)

\* C13: a timid entity whose scaredTimer is above 0 at the tilt check is
\* never killed by its tilt, in the air or on the ground, whatever rotationX
\* and rotationZ are: a tick kills it exactly when it has reached the fence,
\* and then with one death message.
C13_ScaredTimidSparedByTilt ==
    last = "tick" =>
        \A id \in Ids(prev) :
            (/\ ~Before(id).isDead
             /\ Moved(id).personality = "timid"
             /\ Moved(id).scaredTimer > 0) =>
                /\ Now(id).isDead <=> Planar(Moved(id)) >= FENCE_RADIUS
                /\ DeathsOf(id) = IF Planar(Moved(id)) >= FENCE_RADIUS THEN 1 ELSE 0

\* a tick that left a scared timid sheep alive that lay on the ground inside
\* the fence, tilted past the death angle
C13_Witness ==
    /\ last = "tick"
    /\ \E id \in Ids(prev) :
          /\ ~Before(id).isDead
          /\ Moved(id).personality = "timid" /\ Moved(id).scaredTimer > 0
          /\ Moved(id).position.y <= GROUND_Y + 1
          /\ Abs(Moved(id).rotationZ) > TILT_DEATH_RAD
          /\ Planar(Moved(id)) < FENCE_RADIUS
          /\ ~Now(id).isDead

\* the ids of the player entities (the entities that are not AI sheep)
PlayerIds(ps) == {ps[k].id : k \in {k \in 1..Len(ps) : ~ps[k].isAI}}

\* C14: after every handler, and so at the start of every tick, the ids of
\* inputStates are the ids of the connected players (every OPEN connection
\* has its record, every record belongs to a connection whose close event
\* has not come), and the ids of players are these with the ids of the AI
\* sheep: no player entity without its input record, no input record
\* without its entity.  The record of a new connection is all false.
C14_StoresAgree ==
    /\ DOMAIN inputStates = PlayerIds(players)
    /\ Ids(players) = DOMAIN inputStates \cup {aiSheepIds[k] : k \in 1..Len(aiSheepIds)}
    /\ OpenClients \subseteq DOMAIN inputStates
    /\ DOMAIN inputStates \subseteq DOMAIN clients
    /\ last = "connection" =>
          /\ uuidv4(nextId) \notin Ids(prev)
          /\ uuidv4(nextId) \in Ids(players)
          /\ inputStates[uuidv4(nextId)] = NoInput

\* a close event took one player out of both stores while another player
\* stays connected
C14_Witness ==
    /\ last = "close"
    /\ \E id \in Ids(prev) \ Ids(players) : id \notin DOMAIN inputStates
    /\ PlayerIds(players) # {}

\* the last handler run was given a client message
Given == last = "message" /\ received.messages # <<>>

\* the message it was given, and the id of the connection it came on
Data == received.messages[1].data
From == received.messages[1].from

\* an input message for one of the keys w, a, s, d with a boolean pressed
Valid(data) ==
    /\ data.json /\ data.type = "input"
    /\ data.key.t = "string" /\ data.key.v \in Keys
    /\ data.pressed.t = "boolean"

\* C15: handling a valid input message from a connection sets the named
\* flag of that connection's own input record to pressed and changes nothing
\* else: no other flag, no other record, no entity, no connection, and
\* nothing is sent.
C15_InputSetsOneFlag ==
    [][(Given /\ Valid(Data))' =>
          /\ players' = players
          /\ clients' = clients
          /\ sent' = <<>>
          /\ DOMAIN inputStates' = DOMAIN inputStates
          /\ \A c \in DOMAIN inputStates : \A k \in Keys :
                inputStates'[c][k] = IF c = From' /\ k = Data'.key.v THEN Data'.pressed.v
                                     ELSE inputStates[c][k]]_vars

\* a valid message has pressed a key of one of two connected players: the
\* sender's flag is set, the other player's record is all false
C15_Witness ==
    /\ Given /\ Valid(Data) /\ Data.pressed.v
    /\ From \in DOMAIN inputStates
    /\ inputStates[From][Data.key.v]
    /\ \E c \in DOMAIN inputStates : c # From /\ inputStates[c] = NoInput

\* C16: a client message that is not valid JSON, or has another type than
\* input, or names a key other than w, a, s, d, or has a key that is not a
\* string or a pressed that is not a boolean, leaves inputStates and players
\* as they were, closes no connection and sends nothing; and after every
\* handler every input record holds the four flags w, a, s, d, all boolean.
C16_InvalidMessageIgnored ==
    [][/\ \A c \in DOMAIN inputStates' :
            /\ DOMAIN inputStates'[c] = Keys
            /\ \A k \in Keys : inputStates'[c][k] \in BOOLEAN
       /\ (Given /\ ~Valid(Data))' =>
            /\ inputStates' = inputStates
            /\ players' = players
            /\ clients' = clients
            /\ sent' = <<>>]_vars

\* a connected player with no key down has sent an input message for w whose
\* pressed is a string: w is still up
C16_Witness ==
    /\ Given /\ Data.json /\ Data.type = "input"
    /\ Data.key = Value("string", "w") /\ Data.pressed.t = "string"
    /\ From \in DOMAIN inputStates /\ From \in Ids(players)
    /\ inputStates[From] = NoInput
    /\ clients[From] = "OPEN"

\* C17: a socket error does what a clean close does.  The handler of either
\* event, run for a player that is in the store, sends one disconnect
\* message with the id of the player to the connections that are then OPEN
\* and not to the player's own, removes the entity and the input record of
\* that id and leaves every other entity and record as it was.  An id that
\* has left the store never comes back (only a new connection adds an
\* entity, under a new id), and the state message of every later tick lists
\* exactly the ids of the store.
C17_ErrorRemovesLikeClose ==
    [][/\ (last' \in {"error", "close"} /\ Len(sent') > 0
            /\ sent'[1].message.id \in Ids(players)) =>
              /\ Len(sent') = 1
              /\ sent'[1].message = [type |-> "disconnect", id |-> sent'[1].message.id]
              /\ sent'[1].to = {c \in DOMAIN clients' : clients'[c] = "OPEN"}
              /\ sent'[1].message.id \notin sent'[1].to
              /\ Ids(players') = Ids(players) \ {sent'[1].message.id}
              /\ \A id \in Ids(players') : Entity(players', id) = Entity(players, id)
              /\ DOMAIN inputStates' = DOMAIN inputStates \ {sent'[1].message.id}
              /\ \A id \in DOMAIN inputStates' : inputStates'[id] = inputStates[id]
       /\ last' = "error" => Len(sent') = 1 /\ sent'[1].message.id \in Ids(players)
       /\ \A id \in Ids(players') \ Ids(players) :
              last' = "connection" /\ id = uuidv4(nextId') /\ nextId' = nextId + 1
       /\ last' = "tick" =>
              {StateSent'.players[k].id : k \in 1..Len(StateSent'.players)}
                  = Ids(players')]_vars

\* a socket error has taken a player out of both stores, and the disconnect
\* message went to the other player, whose connection is open
C17_Witness ==
    /\ last = "error"
    /\ \E id \in Ids(prev) \ Ids(players) :
          /\ id \notin DOMAIN inputStates
          /\ sent = << [message |-> DisconnectMessage(id), to |-> OpenClients] >>
    /\ OpenClients # {}

\* the places in sent of the messages of a type
SentOf(type) == {k \in 1..Len(sent) : sent[k].message.type = type}

\* C18: the handler of a new connection sends exactly one init message,
\* first of all and to the new connection only, and exactly one connect
\* message, which is about the new player and goes to every other OPEN
\* connection and not to the new one.  Nothing reached the new connection
\* before (a message only goes to connections that exist), and no other
\* handler sends an init or a connect message.
C18_InitThenConnect ==
    /\ \A k \in 1..Len(sent) : sent[k].to \subseteq DOMAIN clients
    /\ last # "connection" => SentOf("init") = {} /\ SentOf("connect") = {}
    /\ last = "connection" =>
          /\ uuidv4(nextId) \notin Ids(prev)
          /\ SentOf("init") = {1}
          /\ sent[1].message.id = uuidv4(nextId)
          /\ sent[1].to = {uuidv4(nextId)}
          /\ SentOf("connect") = {2}
          /\ Len(sent) = 2
          /\ sent[2].message.player.id = uuidv4(nextId)
          /\ sent[2].to = OpenClients \ {uuidv4(nextId)}

\* a connection was accepted while another player was connected and OPEN:
\* the connect message went to that player
C18_Witness ==
    /\ last = "connection"
    /\ OpenClients \ {uuidv4(nextId)} # {}
    /\ sent[2].to = OpenClients \ {uuidv4(nextId)}
    /\ sent[1].to = {uuidv4(nextId)}

\* C19: a tick uses, for the physics of every alive player, the input record
\* as it is when the tick starts, and the same record for all of the physics
\* of that entity.  So a flag set by the last message handled before the
\* tick is the value the tick uses for the sender's entity, and the tick
\* leaves the record as it was.
C19_TickUsesCurrentInput ==
    last = "tick" =>
        /\ \A id \in DOMAIN inputStates :
              (id \in Ids(prev) /\ ~Before(id).isDead) =>
                  Now(id) = AliveStep(Before(id), inputStates[id], clients).player
        /\ (/\ received.messages # <<>>
            /\ Valid(Data)
            /\ From \in DOMAIN inputStates) =>
                  inputStates[From][Data.key.v] = Data.pressed.v

\* a tick right after a message that pressed w for a player at rest: the
\* player has picked up speed
C19_Witness ==
    /\ last = "tick"
    /\ received.messages # <<>>
    /\ Valid(Data) /\ Data.key.v = "w" /\ Data.pressed.v
    /\ From \in Ids(prev) /\ From \in Ids(players)
    /\ ~Before(From).isDead
    /\ SpeedSquared(Before(From)) = 0
    /\ SpeedSquared(Now(From)) > 0

\* the rotation values a message carries, each with the id of its entity
\* and its typeof: the init message carries a copy of players[id], whose
\* rotation is the yaw, a number; the connect and state messages carry an
\* object built for the message
Rotations(message) ==
    IF message.type = "init"
    THEN << [id |-> message.id,
             rotation |-> Value("number", message.initialPlayerState.rotation)] >>
    ELSE IF message.type = "connect"
    THEN << [id |-> message.player.id, rotation |-> Value("object", message.player.rotation)] >>
    ELSE IF message.type = "state"
    THEN [k \in 1..Len(message.players) |->
            [id |-> message.players[k].id,
             rotation |-> Value("object", message.players[k].rotation)]]
    ELSE <<>>

\* C20 as stated: in every init, connect and state message, the rotation of
\* an entity is the object {x: rotationX, y: rotation, z: rotationZ} of the
\* entity's tilt about x, yaw and tilt about z as they are in the store.
C20_RotationIsObject ==
    \A k \in 1..Len(sent) :
        \A j \in 1..Len(Rotations(sent[k].message)) :
            /\ Rotations(sent[k].message)[j].rotation.t = "object"
            /\ Rotations(sent[k].message)[j].rotation.v
                 = [x |-> Now(Rotations(sent[k].message)[j].id).rotationX,
                    y |-> Now(Rotations(sent[k].message)[j].id).rotation,
                    z |-> Now(Rotations(sent[k].message)[j].id).rotationZ]

\* C21: the AI ids are fixed at start-up, ai-sheep-0 to ai-sheep-(count - 1).
\* Whatever ticks, deaths, respawns, connections, disconnections and socket
\* errors have come, every one of them is in the store, as an AI entity with
\* the personality it was created with, and the store holds no other AI
\* entity.
C21_FlockIsFixed ==
    /\ aiSheepIds = SheepIds(Len(aiSheepIds))
    /\ Len(aiSheepIds) > 0
    /\ Ids(players) \ PlayerIds(players) = {aiSheepIds[k] : k \in 1..Len(aiSheepIds)}
    /\ \A k \in 1..Len(aiSheepIds) :
          /\ Cardinality({i \in 1..Len(players) : players[i].id = aiSheepIds[k]}) = 1
          /\ Entity(players, aiSheepIds[k]).isAI
          /\ Entity(players, aiSheepIds[k]).personality
                = AI_PERSONALITIES[((k - 1) % Len(AI_PERSONALITIES)) + 1]

\* a player has been taken out of the store, by a close event or a socket
\* error, while an AI sheep was dead
C21_Witness ==
    /\ last \in {"close", "error"}
    /\ Ids(prev) # Ids(players)
    /\ \E k \in 1..Len(aiSheepIds) :
          aiSheepIds[k] \in Ids(players) /\ Entity(players, aiSheepIds[k]).isDead

\* C22: a state, death or disconnect broadcast goes to exactly the
\* connections whose socket is OPEN, and the connect relay to exactly the
\* OPEN connections other than the new one: a closing or closed socket is
\* skipped and keeps no open connection from its copy.  No message is sent
\* a second time by the same handler run.
C22_BroadcastToTheOpen ==
    /\ \A k \in 1..Len(sent) :
          /\ sent[k].message.type \in {"state", "death", "disconnect"} =>
                sent[k].to = OpenClients
          /\ sent[k].message.type = "connect" =>
                sent[k].to = OpenClients \ {sent[k].message.player.id}
    /\ \A j, k \in 1..Len(sent) :
          (j < k /\ sent[j].message.type = sent[k].message.type) =>
              sent[j].message # sent[k].message
    /\ last = "tick" => Cardinality(SentOf("state")) = 1

\* a tick while the socket of the first player is closing and that of the
\* second is open: the state message went to the second alone
C22_Witness ==
    /\ last = "tick"
    /\ \E c, d \in DOMAIN clients :
          /\ c[2] < d[2]
          /\ clients[c] = "CLOSING" /\ clients[d] = "OPEN"
          /\ sent[Len(sent)].to = {d}

\* C23: respawnTimer of an entity is written by its death alone while it is
\* alive (to RESPAWN_TIME), and by the count-down of a tick alone while it
\* is dead (by one tick period, the tick of its respawn included): no tick
\* changes it for an entity that stays alive, and no connection, message,
\* close or error changes it for anyone.
C23_RespawnTimerWriters ==
    \A id \in Ids(players) \cap Ids(prev) :
        /\ (~Before(id).isDead /\ ~Now(id).isDead) =>
              Now(id).respawnTimer = Before(id).respawnTimer
        /\ (~Before(id).isDead /\ Now(id).isDead) =>
              last = "tick" /\ Now(id).respawnTimer = DblOf(RESPAWN_TIME)
        /\ (Before(id).isDead /\ last = "tick") =>
              Now(id).respawnTimer = DblSub(Before(id).respawnTimer, TICK_PERIOD)
        /\ (Before(id).isDead /\ last # "tick") =>
              Now(id).respawnTimer = Before(id).respawnTimer

\* one tick in which an entity died, a dead one counted down and a third
\* stayed alive
C23_Witness ==
    /\ last = "tick"
    /\ \E a, b, c \in Ids(players) \cap Ids(prev) :
          /\ ~Before(a).isDead /\ Now(a).isDead
          /\ Before(b).isDead /\ Now(b).respawnTimer # Before(b).respawnTimer
          /\ ~Before(c).isDead /\ ~Now(c).isDead

\* C24: after every tick and every other handler, every entity (alive or
\* dead, freshly connected or respawned) has position.y >= GROUND_Y.
C24_NeverBelowGround ==
    \A i \in 1..Len(players) : players[i].position.y >= GROUND_Y

\* a tick that respawned an entity on the ground and pulled a player that
\* connected during the run, standing on the ground, down by gravity
C24_Witness ==
    /\ last = "tick"
    /\ \E id \in Ids(players) \cap Ids(prev) :
          Respawned(id) /\ Now(id).position.y = GROUND_Y
    /\ \E id \in PlayerIds(players) \cap Ids(prev) :
          /\ id # uuidv4(1)
          /\ ~Before(id).isDead
          /\ Move(Before(id)).position.y < GROUND_Y
          /\ Now(id).position.y = GROUND_Y

\* C25 as stated: the thrust of the AI step of a tick goes through the
\* friction and the clamp of the same tick, so the velocity an AI sheep
\* ends the tick with is the one friction and clamp left, of a planar
\* speed <= MAX_SPEED (up to the rounding of the clamp).
C25_ThrustDampedInTick ==
    last = "tick" =>
        \A id \in Ids(prev) :
            (Before(id).isAI /\ ~Before(id).isDead /\ StageAt("ai", id) > 0) =>
                /\ Now(id).velocityX = Moved(id).velocityX
                /\ Now(id).velocityZ = Moved(id).velocityZ
                /\ SpeedSquared(Now(id)) <= (MAX_SPEED + 1) * (MAX_SPEED + 1)

\* C25, amended: the AI step of a tick comes after the friction, the clamp
\* and the position update of that tick.  An AI sheep that was alive and
\* took its AI step stands where the physics put it and ends the tick with the velocity
\* friction and clamp left plus the whole thrust ACCELERATION * moveSpeed
\* along its new yaw, neither damped nor clamped (that is left to the next
\* tick): its speed at broadcast time is bounded by MAX_SPEED +
\* ACCELERATION * moveSpeed, not by MAX_SPEED.
C25_ThrustDampedNextTick ==
    last = "tick" =>
        \A id \in Ids(prev) :
            (Before(id).isAI /\ ~Before(id).isDead /\ StageAt("ai", id) > 0) =>
                /\ Now(id).position = Moved(id).position
                /\ Now(id).velocityX = Moved(id).velocityX
                      + Mul(Mul(Sin(Now(id).rotation), ACCELERATION),
                            moveSpeedOf(Now(id).personality))
                /\ Now(id).velocityZ = Moved(id).velocityZ
                      + Mul(Mul(Cos(Now(id).rotation), ACCELERATION),
                            moveSpeedOf(Now(id).personality))
                /\ SpeedSquared(Now(id))
                      <= (MAX_SPEED + Mul(ACCELERATION, moveSpeedOf(Now(id).personality)) + 3)
                           * (MAX_SPEED + Mul(ACCELERATION, moveSpeedOf(Now(id).personality)) + 3)

\* a tick whose clamp cut the speed of an AI sheep to MAX_SPEED and whose AI
\* step then pushed it above MAX_SPEED
C25_Witness ==
    /\ last = "tick"
    /\ \E id \in Ids(prev) :
          /\ Before(id).isAI /\ ~Before(id).isDead /\ StageAt("ai", id) > 0
          /\ SpeedSquared(Before(id)) > (MAX_SPEED + 1) * (MAX_SPEED + 1)
          /\ SpeedSquared(Moved(id)) <= (MAX_SPEED + 1) * (MAX_SPEED + 1)
          /\ SpeedSquared(Now(id)) > (MAX_SPEED + 1) * (MAX_SPEED + 1)

Stepped(personality) ==
    {id \in Ids(players) \cap Ids(prev) :
        Now(id).personality = personality /\ StageAt("ai", id) > 0}

\* the nearest-neighbour scan of the sheep; no AI step moves anyone or lets
\* anyone die, so the scan saw the positions the tick ended with
Scanned(id) == Nearest(players, Now(id), 1, NoTarget)

\* the random-walk timer of the sheep ran out in the AI step of the tick
Expired(id) == Before(id).aiTimer - TickStep <= 0

\* C26 as stated: at the end of the AI step of every tick in which another
\* alive entity exists, aiTargetAngle of an alive aggressive sheep is
\* within 0.1 rad of the bearing to the nearest other alive entity.
C26_ChaseHeadingEveryTick ==
    last = "tick" =>
        \A id \in Stepped("aggressive") :
            Scanned(id).found =>
                NormalizeAngle(Now(id).aiTargetAngle - Scanned(id).targetAngle)
                    \in -100..100

\* C26, amended: the aggressive branch sets aiTargetAngle within 0.1 rad of
\* the bearing to the nearest other alive entity in every tick, but the
\* random walk runs after it in the same AI step: in a tick in which
\* aiTimer runs out, the AI step ends with the new random heading in
\* [0, 2 pi) and the movement of that tick turns toward it; in every other
\* tick it ends with the chase heading.
C26_ChaseHeadingUnlessRewalked ==
    last = "tick" =>
        \A id \in Stepped("aggressive") :
            Scanned(id).found =>
                IF Expired(id)
                THEN /\ Now(id).aiTargetAngle \in 0..TwoPi
                     /\ Now(id).aiTimer \in 2000..5000
                ELSE Now(id).aiTargetAngle - Scanned(id).targetAngle \in -100..100

\* the tick after one in which the timer of an aggressive sheep ran out:
\* the heading is the chase heading again
C26_Witness ==
    /\ last = "tick"
    /\ \E id \in Stepped("aggressive") :
          /\ Scanned(id).found
          /\ ~Expired(id)
          /\ Before(id).aiTimer >= 2000
          /\ Now(id).aiTargetAngle - Scanned(id).targetAngle \in -100..100
          /\ Now(id).aiTargetAngle # Before(id).aiTargetAngle

\* the range the random walk resets the timer of that personality to
TimerRange(personality) == IF personality = "hyper" THEN 500..1000 ELSE 2000..5000

\* C28: in every AI step the random-walk timer is decremented by one tick
\* period; if that brings it to <= 0, the same step draws a new heading in
\* [0, 2 pi) and resets the timer to [0.5, 1.0] s (hyper) or [2, 5] s (the
\* others), otherwise the step leaves the decremented timer.  So an alive
\* AI sheep ends every AI step with 0 < aiTimer <= 5 (<= 1.0 if hyper), and
\* the timer of a sheep that keeps taking AI steps falls by one tick period
\* per tick from at most 5 s until the step that re-rolls its heading: no
\* more than 5 * TICK_RATE ticks lie between two re-rolls, whatever the
\* personality.  (A hyper sheep whose timer is <= 0 when its step begins,
\* as it is at creation, has it set to [0.5, 1.0] s before the decrement;
\* a scared timid sheep near the fence has it set to 0.1 s.)
C28_TimerRunsDownAndResets ==
    last = "tick" =>
        \A id \in {id \in Ids(players) \cap Ids(prev) : StageAt("ai", id) > 0} :
            /\ Now(id).aiTimer > 0
            /\ Now(id).aiTimer <= 5 * Unit
            /\ Now(id).personality = "hyper" => Now(id).aiTimer <= Unit
            /\ IF Now(id).personality = "hyper" /\ Before(id).aiTimer <= 0
               THEN Now(id).aiTimer + TickStep \in TimerRange("hyper")
               ELSE IF Now(id).personality = "timid" /\ Before(id).scaredTimer > 0
               THEN Now(id).aiTimer \in {Before(id).aiTimer - TickStep, 100 - TickStep}
               ELSE IF Expired(id)
               THEN /\ Now(id).aiTimer \in TimerRange(Now(id).personality)
                    /\ Now(id).aiTargetAngle \in 0..TwoPi
               ELSE Now(id).aiTimer = Before(id).aiTimer - TickStep

\* a tick in which the timers of a hyper sheep and of another sheep, both
\* positive before, ran out and were reset, each to its range
C28_Witness ==
    /\ last = "tick"
    /\ \E h, o \in {id \in Ids(players) \cap Ids(prev) : StageAt("ai", id) > 0} :
          /\ Now(h).personality = "hyper" /\ Now(o).personality # "hyper"
          /\ Before(h).aiTimer > 0 /\ Expired(h)
          /\ Before(o).aiTimer > 0 /\ Expired(o)
          /\ Now(h).aiTimer \in TimerRange("hyper")
          /\ Now(o).aiTimer \in TimerRange(Now(o).personality)

\* the entities other than id that are alive when the tick ends, which is
\* when the AI step of id made its scan: the physics and the death checks
\* of everyone come before every AI step
Others(id) == {o \in Ids(players) : o # id /\ ~Now(o).isDead}

Gap(id, o) ==
    Hypot(Now(o).position.x - Now(id).position.x, Now(o).position.z - Now(id).position.z)

Bearing(id, o) ==
    Atan2(Now(o).position.x - Now(id).position.x, Now(o).position.z - Now(id).position.z)

Closest(id) == {o \in Others(id) : \A q \in Others(id) : Gap(id, o) <= Gap(id, q)}

\* C29: in a tick in which the random walk does not re-roll the heading,
\* a curious or aggressive sheep that took its AI step ends it either with
\* the heading it had (a curious one only, or one with no other alive
\* entity to find) or with a heading within the offset of its personality
\* of the bearing to an entity that is not itself, is alive at the scan
\* (whoever died earlier in the tick is not) and has the least planar
\* distance of all of these, player or sheep; with no other alive entity
\* the heading stays as it was.
C29_TargetIsNearestAlive ==
    last = "tick" =>
        \A id \in Stepped("curious") \cup Stepped("aggressive") :
            ~Expired(id) =>
                /\ Scanned(id).found <=> Others(id) # {}
                /\ IF Others(id) = {}
                   THEN Now(id).aiTargetAngle = Before(id).aiTargetAngle
                   ELSE \/ /\ Now(id).personality = "curious"
                            /\ Now(id).aiTargetAngle = Before(id).aiTargetAngle
                        \/ \E o \in Closest(id) :
                              Now(id).aiTargetAngle - Bearing(id, o)
                                  \in IF Now(id).personality = "curious"
                                      THEN -150..150 ELSE -100..100

\* a tick in which the sheep next to the aggressive one died at the fence
\* and the aggressive one turned to the far side, where its nearest alive
\* neighbour was, and the curious sheep turned to the player next to it
C29_Witness ==
    /\ last = "tick"
    /\ \E a \in Stepped("aggressive") : \E d \in Ids(prev) :
          /\ ~Expired(a)
          /\ ~Before(d).isDead /\ Now(d).isDead
          /\ \A o \in Others(a) : Gap(a, d) < Gap(a, o)
          /\ \E o \in Closest(a) : Now(a).aiTargetAngle - Bearing(a, o) \in -100..100
    /\ \E c \in Stepped("curious") : \E o \in Closest(c) \cap PlayerIds(players) :
          /\ ~Expired(c)
          /\ Now(c).aiTargetAngle # Before(c).aiTargetAngle
          /\ Now(c).aiTargetAngle - Bearing(c, o) \in -150..150

\* the bearing from the sheep to the centre of the arena
AngleToCenter(e) == Atan2(-e.position.x, -e.position.z)

\* the alive brave sheep that took their AI step beyond 0.9 * FENCE_RADIUS
BraveOutside == {id \in Stepped("brave") : Planar(Now(id)) > Mul(FENCE_RADIUS, 900)}

C31_TurnDirection ==
    last = "tick" =>
        \A id \in PlayerIds(prev) \cap DOMAIN inputStates :
            ~Before(id).isDead =>
                /\ Now(id).angularVelocity =
                      Mul(Before(id).angularVelocity
                            + (IF inputStates[id].s /\ ~inputStates[id].w THEN -1 ELSE 1)
                                * TURN_ACCELERATION
                                * ((IF inputStates[id].a THEN 1 ELSE 0)
                                     - (IF inputStates[id].d THEN 1 ELSE 0)),
                          ANGULAR_FRICTION)
                /\ (inputStates[id].a <=> inputStates[id].d) =>
                      Now(id).angularVelocity = Mul(Before(id).angularVelocity, ANGULAR_FRICTION)

\* a tick of a player holding back and left and not forward: the yaw rate
\* fell, as it does for right alone
C31_Witness ==
    /\ last = "tick"
    /\ \E id \in PlayerIds(prev) \cap DOMAIN inputStates :
          /\ ~Before(id).isDead
          /\ inputStates[id] = [w |-> FALSE, a |-> TRUE, s |-> TRUE, d |-> FALSE]
          /\ Now(id).angularVelocity < Mul(Before(id).angularVelocity, ANGULAR_FRICTION)

\* C32: an alive player whose input record is all false comes to rest.  Its
\* planar speed never grows and falls in every tick while it is 0.03 or
\* more (below that the thousandths of the model no longer show the loss
\* of a twentieth); from the 89th tick at the latest velocityX and
\* velocityZ are exactly 0; and a tick that begins with both at 0 leaves
\* them at 0 and the position where it was.
C32_ComesToRest ==
    last = "tick" =>
        \A id \in PlayerIds(prev) \cap DOMAIN inputStates :
            (inputStates[id] = NoInput /\ ~Before(id).isDead) =>
                /\ SpeedSquared(Now(id)) <= SpeedSquared(Before(id))
                /\ SpeedSquared(Before(id)) >= 30 * 30 =>
                      SpeedSquared(Now(id)) < SpeedSquared(Before(id))
                /\ ticks >= 89 => SpeedSquared(Now(id)) = 0
                /\ SpeedSquared(Before(id)) = 0 =>
                      /\ Now(id).velocityX = 0 /\ Now(id).velocityZ = 0
                      /\ Now(id).position = Before(id).position

\* a tick at the end of which a player that had been swerving, its keys
\* released, stood where the tick before had left it
C32_Witness ==
    /\ last = "tick"
    /\ \E id \in PlayerIds(prev) \cap DOMAIN inputStates :
          /\ inputStates[id] = NoInput /\ ~Before(id).isDead
          /\ SpeedSquared(Before(id)) = 0
          /\ Now(id).position = Before(id).position
          /\ Now(id).position.x > 0 /\ Now(id).position.z > 0

\* C33: after every tick and every other handler an entity is dead exactly
\* if its respawnTimer is > 0: a dead entity carries no timer <= 0 into
\* the next tick, and an alive one no positive timer.
C33_DeadIffTimerRuns ==
    \A i \in 1..Len(players) :
        players[i].isDead <=> ~DblLeqZero(players[i].respawnTimer)

\* a tick that brought one entity back to life, the timer it keeps run out
\* below zero, while another entity was still dead and waiting
C33_Witness ==
    /\ last = "tick"
    /\ \E a, b \in Ids(players) \cap Ids(prev) :
          /\ Respawned(a) /\ DblLeqZero(Now(a).respawnTimer)
          /\ Now(a).respawnTimer # DblOf(0)
          /\ Before(b).isDead /\ Now(b).isDead /\ ~DblLeqZero(Now(b).respawnTimer)

\* C34: a tick sends exactly one state message and sends it last: every
\* death message of the tick precedes it, and the state message lists the
\* id of every death message of the tick with isDead = TRUE.
C34_DeathsBeforeState ==
    last = "tick" =>
        /\ Len(sent) > 0
        /\ SentOf("state") = {Len(sent)}
        /\ \A k \in SentOf("death") :
              /\ k < Len(sent)
              /\ \E i \in 1..Len(StateSent.players) :
                    /\ StateSent.players[i].id = sent[k].message.id
                    /\ StateSent.players[i].isDead

\* a tick in which two entities died in front of an OPEN connection
C34_Witness ==
    /\ last = "tick"
    /\ OpenClients # {}
    /\ Cardinality(SentOf("death")) >= 2
    /\ SentOf("state") = {Len(sent)}

\* ------------------------------------------------------------ two players --
\* Two players are connected and no further connection arrives: whatever
\* happens to the socket of one is seen by the other.
InitParty ==
    /\ players = SetupAI(<<0>>, 1, AI_SHEEP_COUNT)
                   \o <<createPlayer(uuidv4(1), getRandomSpawn(0, 0), 0),
                        createPlayer(uuidv4(2), getRandomSpawn(500, 250), 500)>>
    /\ inputStates = (uuidv4(1) :> NoInput) @@ (uuidv4(2) :> NoInput)
    /\ clients = (uuidv4(1) :> "OPEN") @@ (uuidv4(2) :> "OPEN")
    /\ nextId = 2
    /\ sent = <<>>
    /\ stages = <<>>
    /\ last = "start"
    /\ prev = players
    /\ ticks = 0
    /\ handled = 0
    /\ deadFor = [id \in Ids(players) |-> 0]
    /\ received = Tracking(FALSE)
    /\ aiSheepIds = SheepIds(AI_SHEEP_COUNT)

SpecParty == InitParty /\ [][Tick \/ Message \/ Closing \/ Close \/ SocketError]_vars

\* C35 as stated: at most one disconnect message is ever broadcast for a
\* player id, whatever the socket events of its connection, a socket error
\* followed by the close of the same socket included.  The first disconnect
\* of an id comes with the removal of its player, and an id is never given
\* out again: a disconnect message that reaches a connection is therefore
\* the only one of its id exactly if the player was still in the store when
\* the handler began.
C35_OneDisconnectPerId ==
    \A k \in SentOf("disconnect") :
        sent[k].to # {} => sent[k].message.id \in Ids(prev)

InitComeback ==
    /\ players = SetupAI(<<0>>, 1, AI_SHEEP_COUNT)
                   \o <<ArenaPlayer([LongDead EXCEPT !.at = LongDead.at + 1])>>
    /\ inputStates = (uuidv4(1) :> Forward)
    /\ clients = (uuidv4(1) :> "OPEN")
    /\ nextId = 1
    /\ sent = <<>>
    /\ stages = <<>>
    /\ last = "start"
    /\ prev = players
    /\ ticks = 0
    /\ handled = 0
    /\ deadFor = [id \in Ids(players) |->
                    IF Entity(players, id).isDead THEN LongDead.at + 1 ELSE 0]
    /\ received = Tracking(FALSE)
    /\ aiSheepIds = SheepIds(AI_SHEEP_COUNT)

SpecComeback == InitComeback /\ [][NextScenario]_vars

\* C38: death and respawn leave the input records alone.  No tick changes
\* inputStates, whatever dies or comes back in it; a valid input message
\* from a connection whose player is dead is recorded like any other; and
\* the physics of every tick that finds a player alive, the first tick
\* after its respawn included, is driven by the record as it then stands.
C38_InputsOutliveDeath ==
    [][/\ \A id \in PlayerIds(players) \cap DOMAIN inputStates :
             \A data \in {d \in ClientMessages : Valid(d)} :
                 Entity(players, id).isDead =>
                     OnMessage(id, data) = [inputStates EXCEPT ![id][data.key.v] = data.pressed.v]
       /\ last' = "tick" =>
             /\ inputStates' = inputStates
             /\ \A id \in PlayerIds(players) \cap DOMAIN inputStates :
                   ~Entity(players, id).isDead =>
                       \E moved \in {Integrate(Entity(players, id), inputStates[id])} :
                           /\ Entity(players', id).position = moved.position
                           /\ Entity(players', id).velocityX = moved.velocityX
                           /\ Entity(players', id).velocityZ = moved.velocityZ
                           /\ Entity(players', id).rotation = moved.rotation
                           /\ Entity(players', id).angularVelocity = moved.angularVelocity]_vars

\* the first tick of a player since its respawn: it was alive and at rest
\* as the respawn left it, its run-out respawnTimer still below 0, and the
\* keys w and a, held down in its record, set it moving and turning
C38_Witness ==
    /\ last = "tick"
    /\ \E id \in PlayerIds(prev) \cap DOMAIN inputStates :
          /\ ~Before(id).isDead /\ AtRest(Before(id))
          /\ Before(id).respawnTimer # DblOf(0)
          /\ inputStates[id].w /\ inputStates[id].a
          /\ SpeedSquared(Now(id)) > 0 /\ Now(id).angularVelocity > 0

\* ------------------------------------------------------------ the client ---
\* The client's sheepMap: for every id it holds, whether the sheep is
\* marked dead, whether its model is shown, and whether an explosion is
\* attached to it.

\* an addOrUpdateSheep that leaves a sheep it already has as it is (the
\* fault C39 excludes)
addOrUpdateSheepNew(sheepMap, entry) ==
    IF entry.id \in DOMAIN sheepMap THEN sheepMap
    ELSE (entry.id :> [isDead |-> entry.isDead,
                             visible |-> ~entry.isDead,
                             explosion |-> FALSE]) @@ sheepMap

\* addOrUpdateSheep(entry), entry the playerState given: a new sheep where there is none, then the
\* flags of the message
addOrUpdateSheep(sheepMap, entry) ==
    (entry.id :> [isDead |-> entry.isDead,
                        visible |-> ~entry.isDead,
                        explosion |-> IF entry.id \in DOMAIN sheepMap
                                      THEN sheepMap[entry.id].explosion
                                      ELSE FALSE]) @@ sheepMap

\* removeSheep(id)
removeSheep(sheepMap, id) == [k \in DOMAIN sheepMap \ {id} |-> sheepMap[k]]

\* the state branch of ws.onmessage: every entry of the message from the
\* i-th on added or updated, then every sheep that was not among them removed
RECURSIVE Synced(_, _, _, _)
Synced(sheepMap, entries, i, receivedIds) ==
    IF i <= Len(entries)
    THEN Synced(addOrUpdateSheep(sheepMap, entries[i]), entries, i + 1,
                receivedIds \cup {entries[i].id})
    ELSE IF DOMAIN sheepMap \subseteq receivedIds THEN sheepMap
    ELSE Synced(removeSheep(sheepMap, CHOOSE k \in DOMAIN sheepMap : k \notin receivedIds),
                entries, i, receivedIds)

\* ws.onmessage
onmessage(sheepMap, data) ==
    IF data.type = "init" THEN addOrUpdateSheep(sheepMap, data.initialPlayerState)
    ELSE IF data.type = "state" THEN Synced(sheepMap, data.players, 1, {})
    ELSE IF data.type = "connect" THEN addOrUpdateSheep(sheepMap, data.player)
    ELSE IF data.type = "disconnect" THEN removeSheep(sheepMap, data.id)
    ELSE IF data.type = "death" /\ data.id \in DOMAIN sheepMap /\ ~sheepMap[data.id].isDead
    THEN [sheepMap EXCEPT ![data.id] = [isDead |-> TRUE, visible |-> FALSE, explosion |-> TRUE]]
    ELSE sheepMap

\* C39: when a client has processed a state message, the ids of its
\* sheepMap are exactly the ids of the message and every sheep's isDead is
\* the isDead of its entry in the message.  This is so whatever the client
\* held before: nothing, what the store was when the tick began (less one
\* sheep, or with the sheep of a player that has left, or with every flag
\* the other way round), and the same after a death message of the tick.
C39_ClientMirrorsState ==
    last = "tick" =>
        \A drop \in Ids(prev) \cup {Null} : \A stale \in {{}, {uuidv4(MaxConns + 1)}} :
        \A flip \in BOOLEAN : \A k \in SentOf("death") \cup {0} :
            \E held \in {[id \in (Ids(prev) \ {drop}) \cup stale |->
                             [isDead |-> IF id \in stale THEN flip
                                         ELSE Entity(prev, id).isDead # flip,
                              visible |-> flip, explosion |-> FALSE]]} :
            \E sheepMap \in {onmessage(IF k = 0 THEN held ELSE onmessage(held, sent[k].message),
                                       StateSent)} :
                /\ DOMAIN sheepMap = {StateSent.players[i].id : i \in 1..Len(StateSent.players)}
                /\ \A i \in 1..Len(StateSent.players) :
                      sheepMap[StateSent.players[i].id].isDead = StateSent.players[i].isDead

\* a tick that killed a player and sent the death message and the state
\* message to its client, which held the store of the tick's start and the
\* sheep of a player that had left: after both messages the stale sheep is
\* gone and the sheep of the killed player is marked dead and hidden
C39_Witness ==
    /\ last = "tick"
    /\ \E c \in OpenClients : \E k \in SentOf("death") :
          /\ c \in sent[k].to /\ c \in sent[Len(sent)].to
          /\ sent[k].message.id = c
          /\ \E held \in {[id \in Ids(prev) \cup {uuidv4(MaxConns + 1)} |->
                             [isDead |-> FALSE, visible |-> TRUE, explosion |-> FALSE]]} :
             \E sheepMap \in {onmessage(onmessage(held, sent[k].message), StateSent)} :
                /\ DOMAIN sheepMap = Ids(prev)
                /\ sheepMap[c] = [isDead |-> TRUE, visible |-> FALSE, explosion |-> TRUE]

=============================================================================
